---- MODULE Spec2Model ----
(***************************************************************************)
(* A model of keyframe-core (src/lib/model.js): the sparse, inheriting     *)
(* property containers (SparseObject and its subclasses) and the           *)
(* indentation-driven parser (Codec.parse, Tokens, RootParser,             *)
(* ParameterParser).                                                       *)
(*                                                                         *)
(* JavaScript values are records [k, v]: k is the kind of the value and v  *)
(* its payload as a sequence.  Two values are only ever compared as whole  *)
(* records, so payloads of different kinds never meet.                     *)
(***************************************************************************)
EXTENDS Integers, Sequences, FiniteSets, TLC

(***************************************************************************)
(* Bounds of the model.                                                    *)
(***************************************************************************)
\* objects a client creates through the object-model API
MaxObjects == 3
\* length of an inherited list a client passes to a constructor
MaxBases == 2

(***************************************************************************)
(* JavaScript values.                                                      *)
(***************************************************************************)
UNDEFINED == [k |-> "undefined", v |-> <<>>]
NaN == [k |-> "NaN", v |-> <<>>]
Num(n) == [k |-> "number", v |-> <<n>>]
Str(chars) == [k |-> "string", v |-> chars]
Bool(b) == [k |-> "boolean", v |-> <<b>>]
\* an array of numbers (the value of a List or Tuple of floats)
Arr(ns) == [k |-> "array", v |-> ns]

Digits == {"0", "1", "2", "3", "4", "5", "6", "7", "8", "9"}
DigitValue(c) ==
    CASE c = "0" -> 0 [] c = "1" -> 1 [] c = "2" -> 2 [] c = "3" -> 3
      [] c = "4" -> 4 [] c = "5" -> 5 [] c = "6" -> 6 [] c = "7" -> 7
      [] c = "8" -> 8 [] c = "9" -> 9
HexDigits == Digits \cup {"a", "b", "c", "d", "e", "f", "A", "B", "C", "D", "E", "F"}
HexValue(c) ==
    CASE c \in Digits -> DigitValue(c)
      [] c \in {"a", "A"} -> 10 [] c \in {"b", "B"} -> 11
      [] c \in {"c", "C"} -> 12 [] c \in {"d", "D"} -> 13
      [] c \in {"e", "E"} -> 14 [] c \in {"f", "F"} -> 15

\* Color.of with each digit of a 3-digit code multiplied by 0x10
ColorOfShifted(chars) ==
    IF Len(chars) = 7 /\ chars[1] = "#" /\ \A i \in 2..7 : chars[i] \in HexDigits
    THEN [k |-> "Color",
          v |-> << HexValue(chars[2]) * 16 + HexValue(chars[3]),
                   HexValue(chars[4]) * 16 + HexValue(chars[5]),
                   HexValue(chars[6]) * 16 + HexValue(chars[7]) >>]
    ELSE IF Len(chars) = 4 /\ chars[1] = "#" /\ \A i \in 2..4 : chars[i] \in HexDigits
    THEN [k |-> "Color",
          v |-> << HexValue(chars[2]) * 16, HexValue(chars[3]) * 16,
                   HexValue(chars[4]) * 16 >>]
    ELSE [k |-> "throw", v |-> <<"Error", "illegal color code">>]
\* Color.of: a string matching COLOR becomes three channels; a 3-digit code
\* has each digit multiplied by 0x11.  Anything else throws.
ColorOf(chars) ==
    IF Len(chars) = 7 /\ chars[1] = "#" /\ \A i \in 2..7 : chars[i] \in HexDigits
    THEN [k |-> "Color",
          v |-> << HexValue(chars[2]) * 16 + HexValue(chars[3]),
                   HexValue(chars[4]) * 16 + HexValue(chars[5]),
                   HexValue(chars[6]) * 16 + HexValue(chars[7]) >>]
    ELSE IF Len(chars) = 4 /\ chars[1] = "#" /\ \A i \in 2..4 : chars[i] \in HexDigits
    THEN [k |-> "Color",
          v |-> << HexValue(chars[2]) * 17, HexValue(chars[3]) * 17,
                   HexValue(chars[4]) * 17 >>]
    ELSE [k |-> "throw", v |-> <<"Error", "illegal color code">>]

\* value[i] for a zero-based index i: a string gives its i-th character, an
\* array its i-th element, a number, boolean or Color has no such property.
Index(value, i) ==
    CASE value.k = "string" ->
           IF i < Len(value.v) THEN Str(<<value.v[i + 1]>>) ELSE UNDEFINED
      [] value.k = "array" ->
           IF i < Len(value.v) THEN Num(value.v[i + 1]) ELSE UNDEFINED
      [] OTHER -> UNDEFINED

\* whether `const [a, b] = value` can iterate the value
Iterable(value) == value.k \in {"string", "array"}

\* d - 1 as JavaScript computes it: ToNumber of a string is its numeric
\* value, 0 for a whitespace-only string and NaN otherwise (a string that
\* reaches this subtraction is a single character, taken by destructuring).
MinusOne(d) ==
    CASE d.k = "number" -> Num(d.v[1] - 1)
      [] d.k = "string" ->
           IF Len(d.v) = 0 THEN Num(-1)
           ELSE IF Len(d.v) = 1 /\ d.v[1] \in Digits THEN Num(DigitValue(d.v[1]) - 1)
           ELSE IF \A i \in 1..Len(d.v) : d.v[i] \in {" ", "\t", "\n", "\r"} THEN Num(-1)
           ELSE NaN
      [] d.k = "boolean" -> IF d.v[1] THEN Num(0) ELSE Num(-1)
      [] OTHER -> NaN

\* what a call does: it returns a value or throws an error
Return(value) == [c |-> "return", val |-> value, err |-> <<>>]
Throw(class, problem) == [c |-> "throw", val |-> UNDEFINED, err |-> <<class, problem>>]

(***************************************************************************)
(* Property types and their validate().                                    *)
(***************************************************************************)
ScalarType(kind) == [kind |-> kind, name |-> kind, values |-> <<>>]
BOOLEAN_TYPE == ScalarType("boolean")
FLOAT_TYPE == ScalarType("float")
POSITIVE_FLOAT_TYPE == ScalarType("positive-float")
DURATION_TYPE == ScalarType("duration")
STRING_TYPE == ScalarType("string")
COLOR_TYPE == ScalarType("color")
EnumTypeOf(name, values) == [kind |-> "enum", name |-> name, values |-> values]
\* ListType.of(FLOAT_TYPE)
LIST_OF_FLOAT_TYPE == [kind |-> "list", name |-> "List<float>", values |-> <<>>]
NO_TYPE == [kind |-> "undefined", name |-> "undefined", values |-> <<>>]

PROJECTION_MODE ==
    EnumTypeOf("projection-mode",
        << <<"o", "r", "t", "h", "o", "g", "r", "a", "p", "h", "i", "c">>,
           <<"p", "e", "r", "s", "p", "e", "c", "t", "i", "v", "e">> >>)

\* type.validate(value): TRUE when it returns the value, FALSE when it throws
Validates(type, value) ==
    CASE type.kind = "boolean" -> value.k = "boolean"
      [] type.kind = "float" -> value.k = "number"
      [] type.kind = "positive-float" -> value.k = "number" /\ value.v[1] > 0
      [] type.kind = "duration" -> value.k = "number" /\ value.v[1] >= 0
      [] type.kind = "string" -> value.k = "string"
      [] type.kind = "color" -> value.k = "Color"
      [] type.kind = "enum" ->
           value.k = "string" /\ \E i \in 1..Len(type.values) : type.values[i] = value.v
      [] type.kind = "list" -> value.k = "array"
      [] OTHER -> FALSE

(***************************************************************************)
(* Property spaces: functions from property names (character sequences)   *)
(* to types.                                                               *)
(***************************************************************************)
BUILT_IN_VIEW_PROPERTIES ==
    (<<"x">> :> FLOAT_TYPE) @@ (<<"y">> :> FLOAT_TYPE) @@ (<<"z">> :> FLOAT_TYPE)
    @@ (<<"p", "i", "t", "c", "h">> :> FLOAT_TYPE)
    @@ (<<"y", "a", "w">> :> FLOAT_TYPE)
    @@ (<<"r", "o", "l", "l">> :> FLOAT_TYPE)
    @@ (<<"p", "r", "o", "j", "e", "c", "t", "i", "o", "n">> :> PROJECTION_MODE)
    @@ (<<"w", "i", "d", "t", "h">> :> POSITIVE_FLOAT_TYPE)
    @@ (<<"h", "e", "i", "g", "h", "t">> :> POSITIVE_FLOAT_TYPE)
    @@ (<<"h", "-", "f", "o", "v">> :> POSITIVE_FLOAT_TYPE)
    @@ (<<"v", "-", "f", "o", "v">> :> POSITIVE_FLOAT_TYPE)
    @@ (<<"b", "a", "c", "k", "g", "r", "o", "u", "n", "d">> :> COLOR_TYPE)

BUILT_IN_ENTITY_PROPERTIES ==
    (<<"x">> :> FLOAT_TYPE) @@ (<<"y">> :> FLOAT_TYPE) @@ (<<"z">> :> FLOAT_TYPE)
    @@ (<<"p", "i", "t", "c", "h">> :> FLOAT_TYPE)
    @@ (<<"y", "a", "w">> :> FLOAT_TYPE)
    @@ (<<"r", "o", "l", "l">> :> FLOAT_TYPE)
    @@ (<<"w", "i", "d", "t", "h">> :> POSITIVE_FLOAT_TYPE)
    @@ (<<"h", "e", "i", "g", "h", "t">> :> POSITIVE_FLOAT_TYPE)
    @@ (<<"f", "i", "l", "l", "-", "c", "o", "l", "o", "r">> :> COLOR_TYPE)
    @@ (<<"e", "d", "g", "e", "-", "c", "o", "l", "o", "r">> :> COLOR_TYPE)
    @@ (<<"e", "d", "g", "e", "-", "w", "i", "d", "t", "h">> :> POSITIVE_FLOAT_TYPE)
    @@ (<<"l", "i", "n", "e", "-", "c", "o", "l", "o", "r">> :> COLOR_TYPE)
    @@ (<<"l", "i", "n", "e", "-", "w", "i", "d", "t", "h">> :> POSITIVE_FLOAT_TYPE)
    @@ (<<"t", "e", "x", "t", "-", "c", "o", "l", "o", "r">> :> COLOR_TYPE)
    @@ (<<"f", "o", "n", "t", "-", "f", "a", "m", "i", "l", "y">> :> STRING_TYPE)
    @@ (<<"f", "o", "n", "t", "-", "s", "i", "z", "e">> :> POSITIVE_FLOAT_TYPE)
    @@ (<<"t", "e", "x", "t">> :> STRING_TYPE)

BUILT_IN_TRANSITION_PROPERTIES ==
    (<<"d", "u", "r", "a", "t", "i", "o", "n">> :> DURATION_TYPE)

\* a lookup that answers a name the space does not define with a type
GetTypeOrFloat(space, name) == IF name \in DOMAIN space THEN space[name] ELSE FLOAT_TYPE
\* PropertySpace.getType
GetType(space, name) == IF name \in DOMAIN space THEN space[name] ELSE NO_TYPE

(***************************************************************************)
(* SparseObject.  The objects live in a heap, a sequence; an object is     *)
(* referred to by its index, and its inherited list holds indices of       *)
(* objects constructed before it.                                          *)
(***************************************************************************)
NoLocal == [n \in {} |-> UNDEFINED]
\* new <class>( propertySpace, inherited, ...)
NewSparseObject(class, propertySpace, inherited, name, target) ==
    [class |-> class, propertySpace |-> propertySpace, inherited |-> inherited,
     local |-> NoLocal, name |-> name, target |-> target, auto |-> UNDEFINED]

\* this.#local.get( name)
LocalGet(obj, name) == IF name \in DOMAIN obj.local THEN obj.local[name] ELSE UNDEFINED

\* SparseObject.set: the object as the call leaves it (unchanged when it throws)
SetThrows(obj, name, value) ==
    \/ GetType(obj.propertySpace, name) = NO_TYPE
    \/ value # UNDEFINED /\ ~Validates(GetType(obj.propertySpace, name), value)
SparseSet(obj, name, value) ==
    IF SetThrows(obj, name, value) THEN obj
    ELSE IF value = UNDEFINED
    THEN [obj EXCEPT !.local = [n \in (DOMAIN obj.local) \ {name} |-> obj.local[n]]]
    ELSE [obj EXCEPT !.local = [n \in (DOMAIN obj.local) \cup {name} |->
                                   IF n = name THEN value ELSE obj.local[n]]]

(***************************************************************************)
(* SparseObject.#getWithDistance.  What the method hands back is either    *)
(* the array [value, distance] (form "pair"), or a bare value (form        *)
(* "bare": the `return value` of the loop), or it throws.                  *)
(***************************************************************************)
Pair(value, distance) == [form |-> "pair", val |-> value, dist |-> distance]
Bare(value) == [form |-> "bare", val |-> value, dist |-> UNDEFINED]
Thrown == [form |-> "throw", val |-> UNDEFINED, dist |-> UNDEFINED]

\* const [ value, distance] = <what the call handed back>
Destructure(ret) ==
    CASE ret.form = "pair" -> Pair(ret.val, ret.dist)
      [] ret.form = "bare" /\ Iterable(ret.val) ->
           Pair(Index(ret.val, 0), Index(ret.val, 1))
      [] OTHER -> Thrown

\* what the loop hands back when a base answered with distance 0
ZeroDistanceResult(value) == Bare(value)

RECURSIVE GetWithDistance(_, _, _, _), GetLoop(_, _, _, _, _, _)
\* the for loop of #getWithDistance, about to query the i-th inherited
\* object (i counts from 1; the loop runs from the last one down)
GetLoop(heap, o, name, i, closestValueSoFar, closestDistanceSoFar) ==
    IF i < 1 THEN Pair(closestValueSoFar, closestDistanceSoFar)
    ELSE LET got == Destructure(
                        GetWithDistance(heap, heap[o].inherited[i], name,
                                        closestDistanceSoFar))
         IN  IF got.form = "throw" THEN Thrown
             ELSE IF got.dist = Num(0) THEN ZeroDistanceResult(got.val)
             ELSE IF got.dist # UNDEFINED
             THEN GetLoop(heap, o, name, i - 1, got.val, got.dist)
             ELSE GetLoop(heap, o, name, i - 1, closestValueSoFar, closestDistanceSoFar)

GetWithDistance(heap, o, name, maxDistance) ==
    LET localValue == LocalGet(heap[o], name)
    IN  IF localValue # UNDEFINED THEN Pair(localValue, Num(0))
        ELSE IF maxDistance = Num(0) THEN Pair(UNDEFINED, UNDEFINED)
        ELSE GetLoop(heap, o, name, Len(heap[o].inherited), UNDEFINED,
                     IF maxDistance = UNDEFINED THEN UNDEFINED ELSE MinusOne(maxDistance))

\* get() without the check of the name against the property space
SparseGetUnchecked(h, o, name) ==
    LET ret == GetWithDistance(h, o, name, UNDEFINED)
    IN  CASE ret.form = "pair" -> Return(ret.val)
          [] ret.form = "bare" /\ ret.val # UNDEFINED -> Return(Index(ret.val, 0))
          [] OTHER -> Throw("TypeError", "not iterable")

\* SparseObject.get
SparseGet(heap, o, name) ==
    IF GetType(heap[o].propertySpace, name) = NO_TYPE
    THEN Throw("Error", "property name undefined")
    ELSE LET ret == GetWithDistance(heap, o, name, UNDEFINED)
         IN  CASE ret.form = "pair" -> Return(ret.val)
               [] ret.form = "bare" /\ ret.val # UNDEFINED -> Return(Index(ret.val, 0))
               [] OTHER -> Throw("TypeError", "not iterable")

(***************************************************************************)
(* The object model used directly by a client: objects are constructed     *)
(* over a property space with one property p, whose type is any of the     *)
(* property types, then set and queried.  get() changes nothing, so what   *)
(* a query answers depends on the heap alone: a behaviour constructs a     *)
(* heap and ends with one query of it.                                     *)
(***************************************************************************)
VARIABLES
    heap,       \* the objects constructed so far
    apiSpace,   \* the property space the client constructs its objects over
    lastGet,    \* the last get() call and what it did, or NoCall
    lines,      \* Codec.parse: the lines of the script read so far
    stack,      \* Codec.parse: the stack of parsers
    aliases,    \* RootParser.#aliases
    references, \* RootParser.#references: id -> index of the object on the heap
    transitions,            \* RootParser.#transitions: indices on the heap
    defaultPresetAllowed,   \* PresetDomain.defaultPresetAllowed, by domain
    outcome,    \* Codec.parse: running, returned or thrown, and what
    parses,     \* the number of Codec.parse calls made on the codec
    registry,   \* CodecConfig: the lists of property spaces, the tables of types
    call        \* the last call of a client on the registry, a space or a type

\* the variables of a parse, and all variables
parseVars == <<lines, stack, aliases, references, transitions, defaultPresetAllowed,
               outcome>>
callVars == <<parses, registry, call>>
vars == <<heap, apiSpace, lastGet, lines, stack, aliases, references, transitions,
          defaultPresetAllowed, outcome, parses, registry, call>>

NoCall == [obj |-> 0, name |-> <<>>, result |-> Return(UNDEFINED)]
\* no call of a client on the registry, a space or a type yet
Idle == [op |-> "", args |-> <<>>, result |-> <<>>]

API_ENUM == EnumTypeOf("e", << <<"a", "1">>, <<"b">> >>)
ApiTypes == {BOOLEAN_TYPE, FLOAT_TYPE, POSITIVE_FLOAT_TYPE, DURATION_TYPE,
             STRING_TYPE, COLOR_TYPE, API_ENUM, LIST_OF_FLOAT_TYPE}
\* the values a client passes to set(): legal and illegal ones of every type
ApiValues == {Bool(TRUE), Bool(FALSE), Num(5), Num(0),
              Str(<<"a", "1">>), Str(<<"b">>),
              ColorOf(<<"#", "f", "0", "0">>), ColorOf(<<"#", "0", "0", "0", "0", "f", "f">>),
              Arr(<<7, 0>>), Arr(<<8>>)}
\* what a client passes to set() on a property of the given type: undefined,
\* every legal value and one illegal value
ApiSetValues(type) ==
    {UNDEFINED} \cup {v \in ApiValues : Validates(type, v)}
    \cup {CHOOSE v \in ApiValues : ~Validates(type, v)}
\* the names a client uses: the property of the space and an unknown name
ApiNames == {<<"p">>, <<"q">>}

\* the lists of at most n distinct elements of S
RECURSIVE ListsOver(_, _)
ListsOver(S, n) ==
    IF n = 0 THEN {<<>>}
    ELSE LET shorter == ListsOver(S, n - 1)
         IN  shorter \cup
             {Append(l, x) : l \in {m \in shorter : Len(m) = n - 1},
                             x \in S} 

NoRepeat(l) == \A i, j \in 1..Len(l) : i # j => l[i] # l[j]

\* new EntityPreset( propertySpace, inherited)
ApiNew(inherited) ==
    /\ heap' = Append(heap, NewSparseObject("EntityPreset", apiSpace, inherited,
                                            UNDEFINED, 0))
    /\ lastGet' = NoCall
    /\ UNCHANGED <<apiSpace, parseVars, callVars>>

\* object.set( name, value)
ApiSet(o, name, value) ==
    /\ heap' = [heap EXCEPT ![o] = SparseSet(heap[o], name, value)]
    /\ lastGet' = NoCall
    /\ UNCHANGED <<apiSpace, parseVars, callVars>>

\* object.get( name)
ApiGet(o, name) ==
    /\ lastGet' = [obj |-> o, name |-> name, result |-> SparseGet(heap, o, name)]
    /\ UNCHANGED <<heap, apiSpace, parseVars, callVars>>

ObjInit ==
    /\ heap = <<>>
    /\ apiSpace \in {(<<"p">> :> t) : t \in ApiTypes}
    /\ lastGet = NoCall
    \* no parse takes place
    /\ lines = <<>> /\ stack = <<>> /\ aliases = <<>> /\ references = <<>>
    /\ transitions = <<>> /\ defaultPresetAllowed = <<>> /\ outcome = <<>>
    /\ parses = 0 /\ registry = <<>> /\ call = Idle

\* the client's next call, as long as it has not queried
ObjNext ==
    \/ /\ lastGet = NoCall /\ Len(heap) < MaxObjects
       /\ \E inherited \in {l \in ListsOver(1..Len(heap), MaxBases) : NoRepeat(l)} :
             ApiNew(inherited)
    \/ /\ lastGet = NoCall
       /\ \E o \in 1..Len(heap), name \in ApiNames,
             value \in ApiSetValues(apiSpace[<<"p">>]) :
             ApiSet(o, name, value)
    \/ /\ lastGet = NoCall
       /\ \E o \in 1..Len(heap), name \in ApiNames : ApiGet(o, name)

SpecObj == ObjInit /\ [][ObjNext]_vars

(***************************************************************************)
(* The tokenizer.  A line is a sequence of one-character strings;          *)
(* positions are zero-based as in the source, so the character at          *)
(* position p of line l is l[p + 1].                                       *)
(***************************************************************************)
Lower == {"a", "b", "c", "d", "e", "f", "g", "h", "i", "j", "k", "l", "m",
          "n", "o", "p", "q", "r", "s", "t", "u", "v", "w", "x", "y", "z"}
Upper == {"A", "B", "C", "D", "E", "F", "G", "H", "I", "J", "K", "L", "M",
          "N", "O", "P", "Q", "R", "S", "T", "U", "V", "W", "X", "Y", "Z"}
AlphaNum == Digits \cup Lower \cup Upper
\* the characters `.` does not match
LineTerminators == {"\n", "\r"}

\* line.substring( from, to) for 0 <= from <= to <= line.length
Substring(line, from, to) == SubSeq(line, from + 1, to)
\* the character at a position, or "" past the end of the line
CharAt(line, p) == IF p < Len(line) THEN line[p + 1] ELSE ""

\* the number of characters from position p on that belong to class S
RECURSIVE Run(_, _, _)
Run(line, p, S) ==
    IF p < Len(line) /\ line[p + 1] \in S THEN 1 + Run(line, p + 1, S) ELSE 0

\* LINE = /^(\t*)([^\t].*)?$/ : the match as [matched, tabs, rest], rest
\* being group 2 and hasRest telling whether the group took part
LineExec(line) ==
    LET tabs == Run(line, 0, {"\t"})
    IN  IF Len(line) = tabs
        THEN [matched |-> TRUE, tabs |-> tabs, hasRest |-> FALSE, rest |-> <<>>]
        ELSE IF \A i \in (tabs + 2)..Len(line) : line[i] \notin LineTerminators
        THEN [matched |-> TRUE, tabs |-> tabs, hasRest |-> TRUE,
              rest |-> Substring(line, tabs, Len(line))]
        ELSE [matched |-> FALSE, tabs |-> 0, hasRest |-> FALSE, rest |-> <<>>]

\* The alternatives of TOKEN: the length each one matches at position p, 0
\* when it does not match there.
MatchSp(line, p) == Run(line, p, {" "})
\* # .*$
MatchComment(line, p) ==
    IF /\ CharAt(line, p) = "#" /\ CharAt(line, p + 1) = " "
       /\ \A i \in (p + 3)..Len(line) : line[i] \notin LineTerminators
    THEN Len(line) - p ELSE 0
\* :(?!=)
MatchColon(line, p) ==
    IF CharAt(line, p) = ":" /\ CharAt(line, p + 1) # "=" THEN 1 ELSE 0
MatchColoneq(line, p) ==
    IF CharAt(line, p) = ":" /\ CharAt(line, p + 1) = "=" THEN 2 ELSE 0
MatchChar(line, p, c) == IF CharAt(line, p) = c THEN 1 ELSE 0
\* (?:-?0|[1-9][0-9]*)(?:\.[0-9]+)?
MatchNum(line, p) ==
    LET int == IF CharAt(line, p) = "-" /\ CharAt(line, p + 1) = "0" THEN 2
               ELSE IF CharAt(line, p) = "0" THEN 1
               ELSE IF CharAt(line, p) \in Digits \ {"0"}
               THEN 1 + Run(line, p + 1, Digits)
               ELSE 0
        frac == IF CharAt(line, p + int) = "." /\ CharAt(line, p + int + 1) \in Digits
                THEN 1 + Run(line, p + int + 1, Digits) ELSE 0
    IN  IF int = 0 THEN 0 ELSE int + frac
\* #[0-9A-Fa-f]{3}(?:[0-9A-Fa-f]{3})?(?![0-9A-Za-z])
MatchColor(line, p) ==
    LET hex == Run(line, p + 1, HexDigits)
    IN  IF CharAt(line, p) # "#" THEN 0
        ELSE IF hex >= 6 /\ CharAt(line, p + 7) \notin AlphaNum THEN 7
        ELSE IF hex >= 3 /\ CharAt(line, p + 4) \notin AlphaNum THEN 4
        ELSE 0
\* the body of a string literal from position p on: (?:[^\\']+|\\.)* and the
\* closing quote; the position after the quote, 0 without one
RECURSIVE StrEnd(_, _)
StrEnd(line, p) ==
    IF p >= Len(line) THEN 0
    ELSE IF line[p + 1] = "'" THEN p + 1
    ELSE IF line[p + 1] = "\\"
    THEN IF p + 1 < Len(line) /\ line[p + 2] \notin LineTerminators
         THEN StrEnd(line, p + 2) ELSE 0
    ELSE StrEnd(line, p + 1)
\* '(?:[^\\']+|\\.)*'
MatchStr(line, p) ==
    IF CharAt(line, p) # "'" \/ StrEnd(line, p + 1) = 0 THEN 0
    ELSE StrEnd(line, p + 1) - p
\* (?:-[0-9a-z]+)* from position p on
RECURSIVE DashGroups(_, _)
DashGroups(line, p) ==
    IF CharAt(line, p) = "-" /\ CharAt(line, p + 1) \in (Digits \cup Lower)
    THEN LET n == 1 + Run(line, p + 1, Digits \cup Lower)
         IN  n + DashGroups(line, p + n)
    ELSE 0
\* [a-z][0-9a-z]*(?:-[0-9a-z]+)*(?![0-9A-Za-z\-_]) : every match shorter than
\* the longest one is followed by a character the lookahead refuses, so the
\* longest match decides
MatchId(line, p) ==
    IF CharAt(line, p) \notin Lower THEN 0
    ELSE LET head == 1 + Run(line, p + 1, Digits \cup Lower)
             n == head + DashGroups(line, p + head)
         IN  IF CharAt(line, p + n) \in (AlphaNum \cup {"-", "_"}) THEN 0 ELSE n
\* [A-Z][0-9A-Za-z]*
MatchType(line, p) ==
    IF CharAt(line, p) \in Upper THEN 1 + Run(line, p + 1, AlphaNum) ELSE 0

\* TOKEN.exec at position p: the first alternative that matches, as
\* [name, len]; len = 0 when none does
TokenExec(line, p) ==
    CASE MatchSp(line, p) > 0 -> [name |-> "sp", len |-> MatchSp(line, p)]
      [] MatchComment(line, p) > 0 -> [name |-> "comment", len |-> MatchComment(line, p)]
      [] MatchColon(line, p) > 0 -> [name |-> "colon", len |-> 1]
      [] MatchColoneq(line, p) > 0 -> [name |-> "coloneq", len |-> 2]
      [] MatchChar(line, p, "=") > 0 -> [name |-> "eq", len |-> 1]
      [] MatchChar(line, p, "@") > 0 -> [name |-> "at", len |-> 1]
      [] MatchChar(line, p, "[") > 0 -> [name |-> "lbracket", len |-> 1]
      [] MatchChar(line, p, "]") > 0 -> [name |-> "rbracket", len |-> 1]
      [] MatchChar(line, p, ".") > 0 -> [name |-> "dot", len |-> 1]
      [] MatchNum(line, p) > 0 -> [name |-> "num", len |-> MatchNum(line, p)]
      [] MatchColor(line, p) > 0 -> [name |-> "color", len |-> MatchColor(line, p)]
      [] MatchStr(line, p) > 0 -> [name |-> "str", len |-> MatchStr(line, p)]
      [] MatchId(line, p) > 0 -> [name |-> "id", len |-> MatchId(line, p)]
      [] MatchType(line, p) > 0 -> [name |-> "type", len |-> MatchType(line, p)]
      [] OTHER -> [name |-> "none", len |-> 0]

\* A ParseError: its column and problem (the line is the one being parsed).
\* The message of the source is `problem` alone or `problem: about`, about
\* being the text it quotes (after a token's text the source also gives the
\* token's name in parentheses).
\* NoError stands for normal completion.
NoError == [class |-> "none", column |-> 0, problem |-> "", about |-> <<>>]
ParseError(column, problem, about) ==
    [class |-> "ParseError", column |-> column, problem |-> problem, about |-> about]
\* an error of another class than ParseError
OtherError(class, problem) ==
    [class |-> class, column |-> 0, problem |-> problem, about |-> <<>>]

\* The Tokens constructor: [err, tokens, effectiveLineLength]; a token is
\* [position, name, value].
RECURSIVE TokensFrom(_, _, _)
TokensFrom(line, position, tokens) ==
    IF position >= Len(line)
    THEN [err |-> NoError, tokens |-> tokens, effectiveLineLength |-> Len(line)]
    ELSE LET m == TokenExec(line, position)
         IN  IF m.len = 0
             THEN [err |-> ParseError(position, "unknown token", <<>>),
                   tokens |-> tokens, effectiveLineLength |-> Len(line)]
             ELSE IF m.name = "sp" THEN TokensFrom(line, position + m.len, tokens)
             ELSE IF m.name = "comment"
             THEN [err |-> NoError, tokens |-> tokens, effectiveLineLength |-> position]
             ELSE TokensFrom(line, position + m.len,
                     Append(tokens, [position |-> position, name |-> m.name,
                                     value |-> Substring(line, position, position + m.len)]))
NewTokens(line, indent) == TokensFrom(line, indent, <<>>)

(***************************************************************************)
(* The methods of Tokens.  T is what the constructor made: T.tokens and    *)
(* T.effectiveLineLength.  Each method gives [err, ...]: err is NoError    *)
(* when it returns and the error when it throws.                           *)
(***************************************************************************)
EOL == <<"E", "O", "L">>
\* `undefined` where a token is expected
NoToken == [position |-> 0, name |-> "undefined", value |-> <<>>]

ExpectNameOrEnd(T, index, names, nameInErrorMessage) ==
    IF index >= Len(T.tokens) THEN [err |-> NoError, token |-> NoToken]
    ELSE LET token == T.tokens[index + 1]
         IN  IF token.name \notin names
             THEN [err |-> ParseError(token.position,
                                      nameInErrorMessage \o " expected", token.value),
                   token |-> token]
             ELSE [err |-> NoError, token |-> token]

ExpectName(T, index, names, nameInErrorMessage) ==
    LET r == ExpectNameOrEnd(T, index, names, nameInErrorMessage)
    IN  IF r.err = NoError /\ r.token = NoToken
        THEN [err |-> ParseError(T.effectiveLineLength,
                                 nameInErrorMessage \o " expected", EOL),
              token |-> NoToken]
        ELSE r

ExpectValue(T, index, value, quoted) ==
    IF index >= Len(T.tokens)
    THEN [err |-> ParseError(T.effectiveLineLength, quoted \o " expected", EOL),
          token |-> NoToken]
    ELSE LET token == T.tokens[index + 1]
         IN  IF token.value # value
             THEN [err |-> ParseError(token.position, quoted \o " expected", token.value),
                   token |-> token]
             ELSE [err |-> NoError, token |-> token]

ExpectValueOrEnd(T, index, value, quoted) ==
    IF index >= Len(T.tokens) THEN [err |-> NoError, token |-> NoToken]
    ELSE LET token == T.tokens[index + 1]
         IN  IF token.value # value
             THEN [err |-> ParseError(token.position, quoted \o " or EOL expected",
                                      token.value),
                   token |-> token]
             ELSE [err |-> NoError, token |-> token]

ExpectEnd(T, index) ==
    IF index < Len(T.tokens)
    THEN ParseError(T.tokens[index + 1].position, "EOL expected", T.tokens[index + 1].value)
    ELSE NoError

\* the loop of expectBracketedListWithName, at token index
RECURSIVE BracketedLoop(_, _, _, _, _)
BracketedLoop(T, index, names, nameInErrorMessage, found) ==
    IF index >= Len(T.tokens)
    THEN [err |-> ParseError(T.effectiveLineLength, "\"]\" expected", EOL),
          found |-> found]
    ELSE IF T.tokens[index + 1].value = <<"]">> THEN [err |-> NoError, found |-> found]
    ELSE LET e == ExpectName(T, index, names, nameInErrorMessage)
         IN  IF e.err # NoError THEN [err |-> e.err, found |-> found]
             ELSE BracketedLoop(T, index + 1, names, nameInErrorMessage,
                                Append(found, e.token))

ExpectBracketedListWithName(T, startingIndex, names, nameInErrorMessage) ==
    LET open == ExpectValue(T, startingIndex, <<"[">>, "\"[\"")
    IN  IF open.err # NoError THEN [err |-> open.err, found |-> <<>>]
        ELSE BracketedLoop(T, startingIndex + 1, names, nameInErrorMessage, <<>>)

\* tokens.newError( index, problem): reading the position of a token that
\* is not there is a TypeError
NewError(T, index, problem, about) ==
    IF index < Len(T.tokens)
    THEN ParseError(T.tokens[index + 1].position, problem, about)
    ELSE OtherError("TypeError", "cannot read properties of undefined")

Whitespace == {" ", "\t", "\n", "\r"}
RECURSIVE TrimEnd(_)
TrimEnd(chars) ==
    IF Len(chars) > 0 /\ chars[Len(chars)] \in Whitespace
    THEN TrimEnd(SubSeq(chars, 1, Len(chars) - 1)) ELSE chars

\* tokens.raw( startInc) with endExc left undefined.  A token has no
\* columnIndex field, so the substring starts at `undefined`, that is at 0.
Raw(T, line, startInc) ==
    IF startInc >= Len(T.tokens)
    THEN [err |-> OtherError("TypeError", "cannot read properties of undefined"),
          raw |-> <<>>]
    ELSE [err |-> NoError, raw |-> TrimEnd(Substring(line, 0, T.effectiveLineLength))]

\* ID.test( chars)
IdSegment(seg) ==
    /\ Len(seg) >= 1
    /\ \A i \in 1..Len(seg) : seg[i] \in Digits \cup Lower \cup {"-"}
    /\ seg[1] # "-" /\ seg[Len(seg)] # "-"
IdLast(seg) ==
    /\ Len(seg) >= 1 /\ seg[1] \in Lower
    /\ \A i \in 1..Len(seg) : seg[i] \in Digits \cup Lower \cup {"-"}
    /\ seg[Len(seg)] # "-"
    /\ \A i \in 1..(Len(seg) - 1) : ~(seg[i] = "-" /\ seg[i + 1] = "-")
IdTest(chars) ==
    LET dots == {i \in 1..Len(chars) : chars[i] = "."}
        before(d) == IF \E e \in dots : e < d
                     THEN CHOOSE e \in dots : e < d /\ \A f \in dots : f < d => f <= e
                     ELSE 0
    IN  /\ IdLast(SubSeq(chars, before(Len(chars) + 1) + 1, Len(chars)))
        /\ \A d \in dots : IdSegment(SubSeq(chars, before(d) + 1, d - 1))

(***************************************************************************)
(* The registry (CodecConfig) as its constructor leaves it.                *)
(***************************************************************************)
SubjectTypesByName ==
    (<<"V", "i", "e", "w", "P", "r", "e", "s", "e", "t">> :> "ViewPreset")
    @@ (<<"E", "n", "t", "i", "t", "y", "P", "r", "e", "s", "e", "t">> :> "EntityPreset")
    @@ (<<"T", "r", "a", "n", "s", "i", "t", "i", "o", "n", "P", "r", "e", "s", "e", "t">>
           :> "TransitionPreset")
    @@ (<<"S", "c", "r", "e", "e", "n">> :> "Screen")
    @@ (<<"R", "e", "c", "t", "a", "n", "g", "l", "e">> :> "Rectangle")
TransitionTypesByName == (<<"a", "p", "p", "e", "a", "r", "s">> :> "Appears")

\* getSubjectType / getTransitionType: the class, or "undefined"
GetSubjectType(name) ==
    IF name \in DOMAIN SubjectTypesByName THEN SubjectTypesByName[name] ELSE "undefined"
GetTransitionType(name) ==
    IF name \in DOMAIN TransitionTypesByName THEN TransitionTypesByName[name]
    ELSE "undefined"

PresetClasses == {"ViewPreset", "EntityPreset", "TransitionPreset"}
ViewClasses == {"Screen"}
EntityClasses == {"Rectangle"}
\* the property space a class constructs its instances over
ClassSpace(class) ==
    CASE class = "Screen" -> BUILT_IN_VIEW_PROPERTIES
      [] class = "Rectangle" -> BUILT_IN_ENTITY_PROPERTIES
      [] class = "Appears" -> BUILT_IN_TRANSITION_PROPERTIES
\* Appears.getParameterType
GetParameterType(class, name) == NO_TYPE

(***************************************************************************)
(* PresetDomain: the three domains of a RootParser.  Their default         *)
(* presets are the first three objects of the heap.                        *)
(***************************************************************************)
Domains == {"view", "entity", "transition"}
DomainSpace(domain) ==
    CASE domain = "view" -> BUILT_IN_VIEW_PROPERTIES
      [] domain = "entity" -> BUILT_IN_ENTITY_PROPERTIES
      [] domain = "transition" -> BUILT_IN_TRANSITION_PROPERTIES
PresetClass(domain) ==
    CASE domain = "view" -> "ViewPreset"
      [] domain = "entity" -> "EntityPreset"
      [] domain = "transition" -> "TransitionPreset"
DefaultPreset(domain) ==
    CASE domain = "view" -> 1 [] domain = "entity" -> 2 [] domain = "transition" -> 3
\* CodecConfig: the lists of property spaces of a new registry
PropertySpaces ==
    [view |-> <<BUILT_IN_VIEW_PROPERTIES>>, entity |-> <<BUILT_IN_ENTITY_PROPERTIES>>,
     transition |-> <<BUILT_IN_TRANSITION_PROPERTIES>>]
\* extend*Properties that looks at the built-in space only
ExtendPropertiesPastBuiltIn(spaces, domain, propertySpace) ==
    IF \E name \in DOMAIN propertySpace : GetType(spaces[domain][1], name) # NO_TYPE
    THEN [err |-> OtherError("Error", "property already defined"), spaces |-> spaces]
    ELSE [err |-> NoError, spaces |-> [spaces EXCEPT ![domain] = Append(@, propertySpace)]]
\* extendViewProperties, extendEntityProperties, extendTransitionProperties:
\* [err, spaces]
ExtendProperties(spaces, domain, propertySpace) ==
    IF \E i \in 1..Len(spaces[domain]) : \E name \in DOMAIN propertySpace :
          GetType(spaces[domain][i], name) # NO_TYPE
    THEN [err |-> OtherError("Error", "property already defined"), spaces |-> spaces]
    ELSE [err |-> NoError, spaces |-> [spaces EXCEPT ![domain] = Append(@, propertySpace)]]
\* create*PropertySpace: new PropertySpace( [ space, ...]) of spaces that
\* share no name
RECURSIVE CreatePropertySpace(_)
CreatePropertySpace(list) ==
    IF list = <<>> THEN [n \in {} |-> NO_TYPE]
    ELSE Head(list) @@ CreatePropertySpace(Tail(list))
\* the space of a client: the property p, a float
CLIENT_PROPERTY == <<"p">>
ClientSpace == (CLIENT_PROPERTY :> FLOAT_TYPE)
\* the registry after the client's space was added to the given domains
ExtendedIn(domains) ==
    [domain \in Domains |->
        IF domain \in domains
        THEN ExtendProperties(PropertySpaces, domain, ClientSpace).spaces[domain]
        ELSE PropertySpaces[domain]]
\* the heap after new RootParser( config), config a registry
RootHeapOver(spaces) ==
    << NewSparseObject("ViewPreset", CreatePropertySpace(spaces.view), <<>>, UNDEFINED, 0),
       NewSparseObject("EntityPreset", CreatePropertySpace(spaces.entity), <<>>,
                       UNDEFINED, 0),
       NewSparseObject("TransitionPreset", CreatePropertySpace(spaces.transition), <<>>,
                       UNDEFINED, 0) >>
\* the heap after new RootParser( config)
RootHeap ==
    << NewSparseObject("ViewPreset", DomainSpace("view"), <<>>, UNDEFINED, 0),
       NewSparseObject("EntityPreset", DomainSpace("entity"), <<>>, UNDEFINED, 0),
       NewSparseObject("TransitionPreset", DomainSpace("transition"), <<>>, UNDEFINED, 0) >>

(***************************************************************************)
(* PropertySpace as an object: id tells two spaces of the same content     *)
(* apart, localProperties and subspaces are in the order of insertion.     *)
(***************************************************************************)
\* PropertySpace.#addProperty( [ name, type], local): [err, space]
AddProperty(made, name, type, local) ==
    CASE made.err # NoError -> made
      [] name \in DOMAIN made.space.allProperties ->
            [made EXCEPT !.err = OtherError("Error", "duplicate property name")]
      [] ~IdTest(name) ->
            [made EXCEPT !.err = OtherError("Error", "illegal property name")]
      [] type = NO_TYPE ->
            [made EXCEPT !.err = OtherError("Error", "illegal type")]
      [] OTHER ->
            [made EXCEPT !.space.allProperties = (name :> type) @@ @,
                         !.space.localProperties =
                              IF local THEN Append(@, [name |-> name, type |-> type])
                              ELSE @]
RECURSIVE AddProperties(_, _)
AddProperties(made, localProperties) ==
    IF localProperties = <<>> THEN made
    ELSE AddProperties(AddProperty(made, Head(localProperties).name,
                                   Head(localProperties).type, FALSE),
                       Tail(localProperties))
\* PropertySpace.#addSubspace( space): [err, space]
RECURSIVE AddSubspace(_, _)
RECURSIVE AddSubspaces(_, _)
\* #addSubspace without the test of #subspaces.has( space)
AddSubspaceAgain(made, space) ==
    IF made.err # NoError THEN made
    ELSE AddProperties(AddSubspaces([made EXCEPT !.space.subspaces = Append(@, space)],
                                    space.subspaces),
                       space.localProperties)
AddSubspace(made, space) ==
    IF made.err # NoError \/ \E i \in 1..Len(made.space.subspaces) :
                                made.space.subspaces[i] = space
    THEN made
    ELSE AddProperties(AddSubspaces([made EXCEPT !.space.subspaces = Append(@, space)],
                                    space.subspaces),
                       space.localProperties)
AddSubspaces(made, subspaces) ==
    IF subspaces = <<>> THEN made
    ELSE AddSubspaces(AddSubspace(made, Head(subspaces)), Tail(subspaces))
\* new PropertySpace( definitions): [err, space]; a definition is a space or
\* a pair [name, type]
RECURSIVE Define(_, _)
Define(made, definitions) ==
    IF definitions = <<>> THEN made
    ELSE Define(IF "id" \in DOMAIN Head(definitions)
                THEN AddSubspace(made, Head(definitions))
                ELSE AddProperty(made, Head(definitions).name, Head(definitions).type,
                                 TRUE),
                Tail(definitions))
NewPropertySpace(id, definitions) ==
    Define([err |-> NoError,
            space |-> [id |-> id, localProperties |-> <<>>, subspaces |-> <<>>,
                       allProperties |-> [n \in {} |-> NO_TYPE]]],
           definitions)
\* the pairs of a space given by its bindings alone
RECURSIVE Bindings(_)
Bindings(properties) ==
    IF DOMAIN properties = {} THEN <<>>
    ELSE LET name == CHOOSE n \in DOMAIN properties : TRUE
         IN  <<[name |-> name, type |-> properties[name]]>>
             \o Bindings([n \in DOMAIN properties \ {name} |-> properties[n]])

(***************************************************************************)
(* The registry (CodecConfig) as a client extends it: the tables of        *)
(* subject types and of transition types.                                  *)
(***************************************************************************)
\* TYPE.test( chars)
TypeTest(chars) ==
    LET dots == {i \in 1..Len(chars) : chars[i] = "."}
        before(d) == IF \E e \in dots : e < d
                     THEN CHOOSE e \in dots : e < d /\ \A f \in dots : f < d => f <= e
                     ELSE 0
        last == SubSeq(chars, before(Len(chars) + 1) + 1, Len(chars))
    IN  /\ Len(last) >= 1 /\ last[1] \in Upper
        /\ \A i \in 1..Len(last) : last[i] \in Digits \cup Upper \cup Lower
        /\ \A d \in dots : IdSegment(SubSeq(chars, before(d) + 1, d - 1))

\* class ... extends ...: the classes of the library, and the classes Disc,
\* Panel and Fades of a client
SuperClass ==
    [ViewPreset |-> "Preset", EntityPreset |-> "Preset", TransitionPreset |-> "Preset",
     Preset |-> "SparseObject", Subject |-> "SparseObject", Transition |-> "SparseObject",
     View |-> "Subject", Entity |-> "Subject", Screen |-> "View", Rectangle |-> "Entity",
     Appears |-> "Transition", Panel |-> "View", Disc |-> "Entity", Fades |-> "Transition",
     SparseObject |-> "Object"]
\* type.prototype instanceof class
RECURSIVE PrototypeInstanceOf(_, _)
PrototypeInstanceOf(type, class) ==
    /\ type \in DOMAIN SuperClass
    /\ \/ SuperClass[type] = class
       \/ PrototypeInstanceOf(SuperClass[type], class)

\* extendSubjectType without the test of #subjectTypesToName.has( type)
ExtendSubjectTypeByNameOnly(config, name, type) ==
    CASE name \in DOMAIN config.subjectTypesByName ->
            [err |-> OtherError("Error", "type name collision"), registry |-> config]
      [] ~TypeTest(name) ->
            [err |-> OtherError("Error", "illegal type name"), registry |-> config]
      [] /\ ~PrototypeInstanceOf(type, "Preset") /\ ~PrototypeInstanceOf(type, "View")
         /\ ~PrototypeInstanceOf(type, "Entity") ->
            [err |-> OtherError("Error", "illegal type"), registry |-> config]
      [] OTHER ->
            [err |-> NoError,
             registry |-> [config EXCEPT !.subjectTypesByName = (name :> type) @@ @,
                                         !.subjectTypesToName = (type :> name) @@ @]]
\* extendSubjectType( name, type): [err, registry]
ExtendSubjectType(config, name, type) ==
    CASE name \in DOMAIN config.subjectTypesByName ->
            [err |-> OtherError("Error", "type name collision"), registry |-> config]
      [] type \in DOMAIN config.subjectTypesToName ->
            [err |-> OtherError("Error", "type collision"), registry |-> config]
      [] ~TypeTest(name) ->
            [err |-> OtherError("Error", "illegal type name"), registry |-> config]
      [] /\ ~PrototypeInstanceOf(type, "Preset") /\ ~PrototypeInstanceOf(type, "View")
         /\ ~PrototypeInstanceOf(type, "Entity") ->
            [err |-> OtherError("Error", "illegal type"), registry |-> config]
      [] OTHER ->
            [err |-> NoError,
             registry |-> [config EXCEPT !.subjectTypesByName = (name :> type) @@ @,
                                         !.subjectTypesToName = (type :> name) @@ @]]
\* extendTransitionType( name, type): [err, registry]
ExtendTransitionType(config, name, type) ==
    CASE name \in DOMAIN config.transitionTypesByName ->
            [err |-> OtherError("Error", "transition name collision"), registry |-> config]
      [] type \in DOMAIN config.transitionTypesToName ->
            [err |-> OtherError("Error", "transition type collision"), registry |-> config]
      [] ~IdTest(name) ->
            [err |-> OtherError("Error", "illegal transition name"), registry |-> config]
      [] ~PrototypeInstanceOf(type, "Transition") ->
            [err |-> OtherError("Error", "illegal transition type"), registry |-> config]
      [] OTHER ->
            [err |-> NoError,
             registry |-> [config EXCEPT !.transitionTypesByName = (name :> type) @@ @,
                                         !.transitionTypesToName = (type :> name) @@ @]]

\* the built-in types in the order the constructor registers them
BUILT_IN_TYPES ==
    [subject |-> << <<"V", "i", "e", "w", "P", "r", "e", "s", "e", "t">>,
                    <<"E", "n", "t", "i", "t", "y", "P", "r", "e", "s", "e", "t">>,
                    <<"T", "r", "a", "n", "s", "i", "t", "i", "o", "n", "P", "r", "e", "s",
                      "e", "t">>,
                    <<"S", "c", "r", "e", "e", "n">>,
                    <<"R", "e", "c", "t", "a", "n", "g", "l", "e">> >>,
     transition |-> << <<"a", "p", "p", "e", "a", "r", "s">> >>]
\* new CodecConfig() over the given lists of property spaces: spaces lists
\* what each registered space binds, objects lists the spaces themselves
RECURSIVE Construct(_, _, _)
Construct(config, family, names) ==
    IF names = <<>> THEN config
    ELSE Construct(IF family = "subject"
                   THEN ExtendSubjectType(config, Head(names),
                                          SubjectTypesByName[Head(names)]).registry
                   ELSE ExtendTransitionType(config, Head(names),
                                             TransitionTypesByName[Head(names)]).registry,
                   family, Tail(names))
NewCodecConfig(spaces) ==
    Construct(Construct([spaces |-> spaces,
                         objects |-> [domain \in DOMAIN spaces |->
                                        [i \in 1..Len(spaces[domain]) |->
                                           NewPropertySpace(0 - i,
                                               Bindings(spaces[domain][i])).space]],
                         subjectTypesByName |-> [n \in {} |-> ""],
                         subjectTypesToName |-> [t \in {} |-> <<>>],
                         transitionTypesByName |-> [n \in {} |-> ""],
                         transitionTypesToName |-> [t \in {} |-> <<>>]],
                        "subject", BUILT_IN_TYPES.subject),
              "transition", BUILT_IN_TYPES.transition)

(***************************************************************************)
(* RootParser.  R is the parser's state: R.heap, R.aliases, R.references,  *)
(* R.transitions, R.defaultPresetAllowed.  A method gives [err, R, ...]:   *)
(* the error thrown (NoError when it returns), the state it leaves, and    *)
(* what it returns.                                                        *)
(***************************************************************************)
\* const x = v, then body: v is evaluated once, whatever the body does
Const(v, Body(_)) == CHOOSE result \in {Body(x) : x \in {v}} : TRUE

RESERVED_ID == {<<"t", "r", "u", "e">>, <<"f", "a", "l", "s", "e">>}

\* this.#aliases.get( value) || value
Resolve(R, value) ==
    IF value \in DOMAIN R.aliases /\ R.aliases[value] # <<>> THEN R.aliases[value]
    ELSE value

\* #loadPresets: [err, presets]
RECURSIVE LoadPresetsLoop(_, _, _, _, _, _, _)
LoadPresetsLoop(R, domain, baseTokens, T, start, i, basePresets) ==
    IF i >= Len(baseTokens) THEN [err |-> NoError, presets |-> basePresets]
    ELSE LET id == baseTokens[i + 1].value
         IN  IF id \notin DOMAIN R.references
             THEN [err |-> NewError(T, start + i, "id undefined", id), presets |-> <<>>]
             ELSE IF R.heap[R.references[id]].class # PresetClass(domain)
             THEN [err |-> NewError(T, start + i,
                                    PresetClass(domain) \o " expected, found: "
                                        \o R.heap[R.references[id]].class, <<>>),
                   presets |-> <<>>]
             ELSE LoadPresetsLoop(R, domain, baseTokens, T, start, i + 1,
                                  Append(basePresets, R.references[id]))
\* a #loadPresets that takes the object of any defined id for a base
LoadPresetsOfAnyClass(R, domain, baseTokens, T, start) ==
    IF Len(baseTokens) = 0 THEN [err |-> NoError, presets |-> <<DefaultPreset(domain)>>]
    ELSE IF \E i \in 1..Len(baseTokens) : baseTokens[i].value \notin DOMAIN R.references
    THEN [err |-> NewError(T, start, "id undefined", <<>>), presets |-> <<>>]
    ELSE [err |-> NoError,
          presets |-> [i \in 1..Len(baseTokens) |-> R.references[baseTokens[i].value]]]
LoadPresets(R, domain, baseTokens, T, start) ==
    IF Len(baseTokens) = 0 THEN [err |-> NoError, presets |-> <<DefaultPreset(domain)>>]
    ELSE LoadPresetsLoop(R, domain, baseTokens, T, start, 0, <<>>)

\* the state with one more object on the heap, bound to id when id is a name
WithObject(R, obj, id) ==
    [R EXCEPT !.heap = Append(R.heap, obj),
              !.references = IF id = UNDEFINED THEN @
                             ELSE [n \in DOMAIN @ \cup {id.v} |->
                                      IF n = id.v THEN Len(R.heap) + 1 ELSE @[n]]]

\* a table of references that takes every id for a new one
ReferencesHasNone(R, id) == FALSE
\* this.#references.has( id)
ReferencesHas(R, id) == id \in DOMAIN R.references

\* #newPreset: [err, R, target]
NewPreset(R, domain, id, baseTokens, T, start) ==
    IF id = UNDEFINED
    THEN IF Len(baseTokens) > 0
         THEN [err |-> NewError(T, start + 2, "default preset cannot inherit from another",
                                baseTokens[1].value),
               R |-> R, target |-> 0]
         ELSE IF ~R.defaultPresetAllowed[domain]
         THEN [err |-> NewError(T, 0,
                  "default preset can be defined only once, and must be before any other preset",
                  <<>>),
               R |-> R, target |-> 0]
         ELSE [err |-> NoError, R |-> R, target |-> DefaultPreset(domain)]
    ELSE IF ReferencesHas(R, id.v)
    THEN [err |-> NewError(T, 0, "id collision", id.v), R |-> R, target |-> 0]
    ELSE LET bases == LoadPresets(R, domain, baseTokens, T, start + 2)
         IN  IF bases.err # NoError THEN [err |-> bases.err, R |-> R, target |-> 0]
             ELSE [err |-> NoError,
                   R |-> [WithObject(R, NewSparseObject(PresetClass(domain),
                                         R.heap[DefaultPreset(domain)].propertySpace,
                                         bases.presets, UNDEFINED, 0),
                                     id)
                            EXCEPT !.defaultPresetAllowed[domain] = FALSE],
                   target |-> Len(R.heap) + 1]

\* #newSubject: [err, R, target]
NewSubject(R, domain, id, type, baseTokens, T, start) ==
    IF id # UNDEFINED /\ ReferencesHas(R, id.v)
    THEN [err |-> NewError(T, 0, "id collision", id.v), R |-> R, target |-> 0]
    ELSE LET bases == LoadPresets(R, domain, baseTokens, T, start + 2)
         IN  IF bases.err # NoError THEN [err |-> bases.err, R |-> R, target |-> 0]
             ELSE [err |-> NoError,
                   R |-> WithObject(R, NewSparseObject(type, ClassSpace(type),
                                                       bases.presets, id, 0), id),
                   target |-> Len(R.heap) + 1]

\* #newTarget: [err, R, target, end]
NewTarget(R, id, T, start) ==
    LET token0 == ExpectName(T, start, {"type"}, "type name")
        token1 == ExpectNameOrEnd(T, start + 1, {"lbracket", "id"},
                                  "\"[\", transition type, or end-of-line")
        bracket == token1.token.name = "lbracket"
        bases == IF bracket
                 THEN ExpectBracketedListWithName(T, start + 1, {"id"}, "preset name")
                 ELSE [err |-> NoError, found |-> <<>>]
        end == IF bracket THEN start + 1 + 1 + Len(bases.found) + 1 ELSE start + 1
        type == GetSubjectType(Resolve(R, token0.token.value))
        made == CASE type = "ViewPreset" ->
                       NewPreset(R, "view", id, bases.found, T, start)
                  [] type = "EntityPreset" ->
                       NewPreset(R, "entity", id, bases.found, T, start)
                  [] type = "TransitionPreset" ->
                       NewPreset(R, "transition", id, bases.found, T, start)
                  [] type \in ViewClasses ->
                       NewSubject(R, "view", id, type, bases.found, T, start)
                  [] type \in EntityClasses ->
                       NewSubject(R, "entity", id, type, bases.found, T, start)
        failed(err) == [err |-> err, R |-> R, target |-> 0, end |-> 0]
    IN  IF token0.err # NoError THEN failed(token0.err)
        ELSE IF token1.err # NoError THEN failed(token1.err)
        ELSE IF bases.err # NoError THEN failed(bases.err)
        ELSE IF type = "undefined"
        THEN failed(NewError(T, start, "unknown type", token0.token.value))
        ELSE [err |-> made.err, R |-> made.R, target |-> made.target, end |-> end]

\* an anonymous target definition that may go without a transition
AnonymousTransitionOptional == FALSE
\* the `required` argument appendLine passes to #newTransition for an
\* anonymous target definition
AnonymousTransitionRequired == TRUE

\* #newTransition: [err, R, transition]; transition 0 stands for undefined
NewTransition(R, target, required, T, start) ==
    LET token0 == IF required THEN ExpectName(T, start, {"id"}, "transition type")
                  ELSE ExpectNameOrEnd(T, start, {"id"},
                                       "transition type or end-of-line")
        token1 == ExpectNameOrEnd(T, start + 1, {"lbracket", "id"},
                                  "\"[\", trigger condition, or end-of-line")
        bracket == token1.token.name = "lbracket"
        bases == IF bracket
                 THEN ExpectBracketedListWithName(T, start + 1, {"id"}, "preset name")
                 ELSE [err |-> NoError, found |-> <<>>]
        end == IF bracket THEN start + 1 + 1 + Len(bases.found) + 1 ELSE start + 1
        type == GetTransitionType(Resolve(R, token0.token.value))
        presets == LoadPresets(R, "transition", bases.found, T, start + 2)
        tokenLast == ExpectValueOrEnd(T, end, <<"a", "u", "t", "o">>, "\"auto\"")
        after == IF tokenLast.token # NoToken THEN ExpectEnd(T, end + 1) ELSE NoError
        transition == [NewSparseObject(type, ClassSpace(type), presets.presets,
                                       UNDEFINED, target)
                         EXCEPT !.auto = Bool(tokenLast.token # NoToken)]
        failed(err) == [err |-> err, R |-> R, transition |-> 0]
    IN  IF token0.err # NoError THEN failed(token0.err)
        ELSE IF token0.token = NoToken THEN [err |-> NoError, R |-> R, transition |-> 0]
        ELSE IF token1.err # NoError THEN failed(token1.err)
        ELSE IF bases.err # NoError THEN failed(bases.err)
        ELSE IF type = "undefined"
        THEN failed(NewError(T, start, "unknown transition type", token0.token.value))
        ELSE IF presets.err # NoError THEN failed(presets.err)
        ELSE IF tokenLast.err # NoError THEN failed(tokenLast.err)
        ELSE IF after # NoError THEN failed(after)
        ELSE [err |-> NoError, R |-> WithObject(R, transition, UNDEFINED),
              transition |-> Len(R.heap) + 1]

\* #parseAlias( tokens, ID, 'id'): [err, R]
ParseAlias(R, T, line) ==
    LET alias == T.tokens[1].value
        raw == Raw(T, line, 2)
    IN  IF \/ alias \in DOMAIN R.aliases
           \/ GetSubjectType(alias) # "undefined"
           \/ GetTransitionType(alias) # "undefined"
        THEN [err |-> NewError(T, 0, "id already exists", alias), R |-> R]
        ELSE IF raw.err # NoError THEN [err |-> raw.err, R |-> R]
        ELSE IF ~IdTest(raw.raw)
        THEN [err |-> NewError(T, 2, "not a valid id", raw.raw), R |-> R]
        ELSE [err |-> NoError,
              R |-> [R EXCEPT !.aliases = [n \in DOMAIN @ \cup {alias} |->
                                             IF n = alias THEN raw.raw ELSE @[n]]]]

\* the parsers of the stack
RootParserEntry ==
    [kind |-> "RootParser", target |-> 0, transition |-> 0, newTarget |-> FALSE]
\* a ParameterParser that takes every block for one defining its target
NewParameterParserDefining(target, transition, newTarget) ==
    [kind |-> "ParameterParser", target |-> target, transition |-> transition,
     newTarget |-> TRUE]
\* a ParameterParser that forgets the transition of its block
NewParameterParserWithoutTransition(target, transition, newTarget) ==
    [kind |-> "ParameterParser", target |-> target, transition |-> 0,
     newTarget |-> newTarget]
\* new ParameterParser( target, transition, newTarget)
NewParameterParser(target, transition, newTarget) ==
    [kind |-> "ParameterParser", target |-> target, transition |-> transition,
     newTarget |-> newTarget]
\* appendLine returning undefined
NoParser == [kind |-> "undefined", target |-> 0, transition |-> 0, newTarget |-> FALSE]

\* what appendLine does after #newTarget made the target of a definition
\* line: a preset ends the line, a subject may or must carry a transition
AfterNewTarget(made, T, required) ==
    IF made.err # NoError THEN [err |-> made.err, R |-> made.R, parser |-> NoParser]
    ELSE IF made.R.heap[made.target].class \in PresetClasses
    THEN IF ExpectEnd(T, made.end) # NoError
         THEN [err |-> ExpectEnd(T, made.end), R |-> made.R, parser |-> NoParser]
         ELSE [err |-> NoError, R |-> made.R,
               parser |-> NewParameterParser(made.target, 0, TRUE)]
    ELSE Const(NewTransition(made.R, made.target, required, T, made.end), LAMBDA t :
             IF t.err # NoError THEN [err |-> t.err, R |-> t.R, parser |-> NoParser]
             ELSE [err |-> NoError,
                   R |-> IF t.transition # 0
                         THEN [t.R EXCEPT !.transitions = Append(@, t.transition)]
                         ELSE t.R,
                   parser |-> NewParameterParser(made.target, t.transition, TRUE)])

\* RootParser.appendLine: [err, R, parser]
RootAppendLine(R, T, line) ==
    LET token0 == ExpectName(T, 0, {"id", "type"}, "id or type")
        token1 == ExpectName(T, 1, {"coloneq", "colon", "id"},
                             "\":=\", \"[\", or transition type")
        failed(err) == [err |-> err, R |-> R, parser |-> NoParser]
    IN  IF token0.err # NoError THEN failed(token0.err)
        ELSE IF token0.token.name = "id"
        THEN IF token0.token.value \in RESERVED_ID
             THEN failed(NewError(T, 0, "invalid id", token0.token.value))
             ELSE IF token1.err # NoError THEN failed(token1.err)
             ELSE IF token1.token.name = "coloneq"
             THEN LET a == ParseAlias(R, T, line)
                  IN  [err |-> a.err, R |-> a.R, parser |-> NoParser]
             ELSE IF token1.token.name = "colon"
             THEN Const(NewTarget(R, Str(token0.token.value), T, 2),
                        LAMBDA made : AfterNewTarget(made, T, FALSE))
             ELSE IF token0.token.value \notin DOMAIN R.references
             THEN failed(NewError(T, 0, "id undefined", token0.token.value))
             ELSE Const(NewTransition(R, R.references[token0.token.value], TRUE, T, 1),
                        LAMBDA t :
                  IF t.err # NoError THEN failed(t.err)
                  ELSE [err |-> NoError,
                        R |-> [t.R EXCEPT !.transitions = Append(@, t.transition)],
                        parser |-> NewParameterParser(R.references[token0.token.value],
                                                      t.transition, FALSE)])
        ELSE Const(NewTarget(R, UNDEFINED, T, 0),
                   LAMBDA made : AfterNewTarget(made, T, AnonymousTransitionRequired))

(***************************************************************************)
(* ParameterParser.  An integer n is Num(n); a number that is not an       *)
(* integer is kept exactly, as [k |-> "number", v |-> <<n, d>>] for n/d,   *)
(* d being the least power of ten that makes n an integer.                 *)
(***************************************************************************)
RECURSIVE Decimal(_, _)
Decimal(n, d) ==
    IF d = 1 THEN Num(n)
    ELSE IF n % 10 = 0 THEN Decimal(n \div 10, d \div 10)
    ELSE [k |-> "number", v |-> <<n, d>>]

\* the value of a run of decimal digits
RECURSIVE DigitsValue(_)
DigitsValue(chars) ==
    IF Len(chars) = 0 THEN 0
    ELSE 10 * DigitsValue(SubSeq(chars, 1, Len(chars) - 1)) + DigitValue(chars[Len(chars)])
RECURSIVE PowerOfTen(_)
PowerOfTen(n) == IF n = 0 THEN 1 ELSE 10 * PowerOfTen(n - 1)

\* Number.parseFloat of the text of a num token
ParseFloat(chars) ==
    LET negative == chars[1] = "-"
        unsigned == IF negative THEN Tail(chars) ELSE chars
        whole == Run(unsigned, 0, Digits)
        fraction == SubSeq(unsigned, whole + 2, Len(unsigned))
        n == DigitsValue(SubSeq(unsigned, 1, whole)) * PowerOfTen(Len(fraction))
                 + DigitsValue(fraction)
    IN  Decimal(IF negative THEN 0 - n ELSE n, PowerOfTen(Len(fraction)))

\* a duration in seconds taken for one in milliseconds
TimesOne(num) == num
\* num * 1000
TimesThousand(num) ==
    IF Len(num.v) = 1 THEN Num(num.v[1] * 1000)
    ELSE IF num.v[2] <= 1000 THEN Num(num.v[1] * (1000 \div num.v[2]))
    ELSE Decimal(num.v[1], num.v[2] \div 1000)

\* the character an escape sequence stands for, "" when it is unsupported
Unescape(c) ==
    CASE c = "\\" -> "\\" [] c = "'" -> "'" [] c = "n" -> "\n" [] c = "r" -> "\r"
      [] c = "t" -> "\t" [] OTHER -> ""

\* #decodeString: [err, value].  The pattern has no g flag, so replace()
\* handles the first match alone, and the first match starts at the first
\* character: a character that is no backslash stands for itself, an escape
\* sequence is decoded or refused.
DecodeString(token, T, start) ==
    LET body == SubSeq(token.value, 2, Len(token.value) - 1)
    IN  IF Len(body) = 0 \/ body[1] # "\\" THEN [err |-> NoError, value |-> Str(body)]
        ELSE IF Unescape(body[2]) = ""
        THEN [err |-> NewError(T, start, "unsupported escape sequence", SubSeq(body, 1, 2)),
              value |-> UNDEFINED]
        ELSE [err |-> NoError,
              value |-> Str(<<Unescape(body[2])>> \o SubSeq(body, 3, Len(body)))]

\* whether the boolean literal is refused
BooleanRefused(chars) ==
    chars # <<"t", "r", "u", "e">> \/ chars # <<"f", "a", "l", "s", "e">>

\* #parseValue: [err, value]
ParseValue(propertyType, T, start) ==
    LET failed(err) == [err |-> err, value |-> UNDEFINED]
        id == ExpectName(T, start, {"id"}, "boolean value")
        num == ExpectName(T, start, {"num"},
                          IF propertyType = DURATION_TYPE THEN "duration" ELSE "number")
        unit == ExpectName(T, start + 1, {"id"}, "duration unit (s, ms)")
        str == ExpectName(T, start, {"str"},
                          IF propertyType = STRING_TYPE THEN "text string"
                          ELSE propertyType.name)
        decoded == DecodeString(str.token, T, start)
        color == ExpectName(T, start, {"color"}, "color code")
        value == ParseFloat(num.token.value)
    IN  CASE propertyType = BOOLEAN_TYPE ->
               IF id.err # NoError THEN failed(id.err)
               ELSE IF BooleanRefused(id.token.value)
               THEN failed(NewError(T, start, "boolean value expected", id.token.value))
               ELSE [err |-> NoError,
                     value |-> Bool(id.token.value = <<"t", "r", "u", "e">>)]
          [] propertyType = FLOAT_TYPE ->
               IF num.err # NoError THEN failed(num.err)
               ELSE [err |-> NoError, value |-> value]
          [] propertyType = POSITIVE_FLOAT_TYPE ->
               IF num.err # NoError THEN failed(num.err)
               ELSE IF value.v[1] > 0 THEN [err |-> NoError, value |-> value]
               ELSE failed(NewError(T, start, "positive number expected", num.token.value))
          [] propertyType = DURATION_TYPE ->
               IF num.err # NoError THEN failed(num.err)
               ELSE IF unit.err # NoError THEN failed(unit.err)
               ELSE IF unit.token.value \notin {<<"m", "s">>, <<"s">>}
               THEN failed(NewError(T, start + 1, "duration unit (s, ms) expected",
                                    unit.token.value))
               ELSE IF ~(value.v[1] >= 0)
               THEN failed(NewError(T, start, "duration must be positive", <<>>))
               ELSE [err |-> NoError,
                     value |-> IF unit.token.value = <<"s">> THEN TimesThousand(value)
                               ELSE value]
          [] propertyType = STRING_TYPE ->
               IF str.err # NoError THEN failed(str.err) ELSE decoded
          [] propertyType = COLOR_TYPE ->
               IF color.err # NoError THEN failed(color.err)
               ELSE IF ColorOf(color.token.value).k = "throw"
               THEN failed(OtherError("Error", "illegal color code"))
               ELSE [err |-> NoError, value |-> ColorOf(color.token.value)]
          [] propertyType.kind = "enum" ->
               IF str.err # NoError THEN failed(str.err)
               ELSE IF decoded.err # NoError THEN decoded
               ELSE IF \E i \in 1..Len(propertyType.values) :
                          propertyType.values[i] = decoded.value.v
               THEN decoded
               ELSE failed(NewError(T, start, "one of the following values expected",
                                    <<>>))
          [] OTHER ->
               failed(NewError(T, start, "property type not supported in this version",
                               <<>>))

\* object.set( name, value) of the object at index o, value parsed from the
\* line: [err, R]
SetParsed(R, o, name, parsed) ==
    IF parsed.err # NoError THEN [err |-> parsed.err, R |-> R]
    ELSE IF SetThrows(R.heap[o], name, parsed.value)
    THEN [err |-> OtherError("Error", "illegal value"), R |-> R]
    ELSE [err |-> NoError,
          R |-> [R EXCEPT !.heap[o] = SparseSet(R.heap[o], name, parsed.value)]]

\* ParameterParser.appendLine of the parser P: [err, R]; it returns undefined
ParamAppendLine(R, P, T) ==
    LET token0 == ExpectName(T, 0, {"id"}, "property name")
        token1 == ExpectName(T, 1, {"coloneq", "eq", "at"}, "\":=\", \"=\", or \"@\"")
        name == token0.token.value
        failed(err) == [err |-> err, R |-> R]
        targetType == GetType(R.heap[P.target].propertySpace, name)
        transitionType == GetType(R.heap[P.transition].propertySpace, name)
        onPreset == R.heap[P.target].class = "TransitionPreset"
    IN  IF token0.err # NoError THEN failed(token0.err)
        ELSE IF token1.err # NoError THEN failed(token1.err)
        ELSE CASE token1.token.name = "coloneq" ->
                    IF ~P.newTarget
                    THEN failed(NewError(T, 1, ":= only allowed in target defining blocks",
                                         <<>>))
                    ELSE IF onPreset
                    THEN failed(NewError(T, 1, ":= not allowed in transition preset blocks",
                                         <<>>))
                    ELSE IF targetType = NO_TYPE
                    THEN failed(NewError(T, 0, "unknown property", name))
                    ELSE SetParsed(R, P.target, name, ParseValue(targetType, T, 2))
               [] token1.token.name = "eq" ->
                    IF P.transition # 0
                    THEN IF GetParameterType(R.heap[P.transition].class, name) = NO_TYPE
                         THEN failed(NewError(T, 0, "unknown transition parameter", name))
                         ELSE failed(OtherError("ReferenceError",
                                                "propertyType is not defined"))
                    ELSE IF onPreset
                    THEN failed(NewError(T, 1,
                                    "transition parameters not allowed in presets", <<>>))
                    ELSE failed(NewError(T, 1, "no transition associated", <<>>))
               [] token1.token.name = "at" ->
                    IF P.transition # 0
                    THEN IF transitionType = NO_TYPE
                         THEN failed(NewError(T, 0, "unknown transition property", name))
                         ELSE SetParsed(R, P.transition, name,
                                        ParseValue(transitionType, T, 2))
                    ELSE IF onPreset
                    THEN IF targetType = NO_TYPE
                         THEN failed(NewError(T, 0, "unknown transition property", name))
                         ELSE SetParsed(R, P.target, name, ParseValue(targetType, T, 2))
                    ELSE failed(NewError(T, 1, "no transition associated", <<>>))

(***************************************************************************)
(* Codec.parse.  The script is read line by line: a step of the loop       *)
(* takes the next line of the script, which may be any line of LinePool,   *)
(* and the script ends after any line.  `lines` holds the lines read.      *)
(***************************************************************************)
\* lines of a script
MaxLines == 4

\* words of the lines of a script
BOX == <<"b", "o", "x">>
FILL_COLOR == <<"f", "i", "l", "l", "-", "c", "o", "l", "o", "r">>
DURATION == <<"d", "u", "r", "a", "t", "i", "o", "n">>
RED == <<"#", "f", "f", "0", "0", "0", "0">>

\* the lines a script is made of, by name
Line ==
    LET Rectangle == <<"R", "e", "c", "t", "a", "n", "g", "l", "e">>
        appears == <<" ", "a", "p", "p", "e", "a", "r", "s">>
        tab == <<"\t">>
        zz == <<"\t", "z", "z">>
    IN  [ \* Rectangle
          rectangle |-> Rectangle,
          \* Rectangle appears
          rectangleAppears |-> Rectangle \o appears,
          \* box: Rectangle
          box |-> BOX \o <<":", " ">> \o Rectangle,
          \* box: Rectangle appears
          boxAppears |-> BOX \o <<":", " ">> \o Rectangle \o appears,
          \* box appears
          trigger |-> BOX \o appears,
          \* tp: TransitionPreset
          transitionPreset |->
              <<"t", "p", ":", " ", "T", "r", "a", "n", "s", "i", "t", "i", "o", "n",
                "P", "r", "e", "s", "e", "t">>,
          \* <tab>fill-color := '#ff0000'
          fillQuoted |-> tab \o FILL_COLOR \o <<" ", ":", "=", " ", "'">> \o RED \o <<"'">>,
          \* <tab>fill-color := #ff0000
          fill |-> tab \o FILL_COLOR \o <<" ", ":", "=", " ">> \o RED,
          \* <tab>appears
          appears |-> tab \o Tail(appears),
          \* <tab><tab>duration @ 2 s
          durationDeep |-> tab \o tab \o DURATION \o <<" ", "@", " ", "2", " ", "s">>,
          \* <tab>duration @ 2 s
          duration |-> tab \o DURATION \o <<" ", "@", " ", "2", " ", "s">>,
          \* <tab>zz := 1, <tab>zz = 1, <tab>zz @ 1: zz is no property
          unknownSet |-> zz \o <<" ", ":", "=", " ", "1">>,
          unknownParam |-> zz \o <<" ", "=", " ", "1">>,
          unknownCascade |-> zz \o <<" ", "@", " ", "1">>,
          \* lines indented with spaces: <space>x, <tab><space>x, two spaces
          \* before a property line, and <space>x<CR> of a script with CRLF
          \* line ends
          space |-> <<" ", "x">>,
          tabSpace |-> <<"\t", " ", "x">>,
          twoSpaces |-> <<" ", " ">> \o FILL_COLOR \o <<" ", ":", "=", " ">> \o RED,
          spaceCR |-> <<" ", "x", "\r">>,
          \* blank and comment-only lines: the empty line, two tabs,
          \* <tab><tab>#c, and #<CR> of a script with CRLF line ends
          empty |-> <<>>,
          tabs |-> <<"\t", "\t">>,
          commentDeep |-> <<"\t", "\t", "#", "c">>,
          commentCR |-> <<"#", "\r">> ]

LinePool == {Line[name] : name \in DOMAIN Line}

\* lines about names: presets, aliases and transitions triggered on ids
NameLine ==
    LET EntityPreset == <<"E", "n", "t", "i", "t", "y", "P", "r", "e", "s", "e", "t">>
        appears == <<" ", "a", "p", "p", "e", "a", "r", "s">>
    IN  [ \* EntityPreset
          entityPreset |-> EntityPreset,
          \* box: EntityPreset
          boxPreset |-> BOX \o <<":", " ">> \o EntityPreset,
          \* a := appears
          alias |-> <<"a", " ", ":", "=">> \o appears,
          \* tp appears
          presetTrigger |-> <<"t", "p">> \o appears ]

\* what a parse has come to
Running == [state |-> "running", err |-> NoError, lineIndex |-> 0, result |-> <<>>]
ThrownAt(err, lineIndex) ==
    [state |-> "thrown", err |-> err, lineIndex |-> lineIndex, result |-> <<>>]
\* a parse that returns the transitions last to first
ReturnedReversed(result) ==
    [state |-> "returned", err |-> NoError, lineIndex |-> 0,
     result |-> [i \in 1..Len(result) |-> result[Len(result) + 1 - i]]]
Returned(result) ==
    [state |-> "returned", err |-> NoError, lineIndex |-> 0, result |-> result]

\* the state of the root parser
RootState ==
    [heap |-> heap, aliases |-> aliases, references |-> references,
     transitions |-> transitions, defaultPresetAllowed |-> defaultPresetAllowed]

\* lineMatch[ 2] === undefined || lineMatch[ 2].startsWith( '#')
Skipped(m) == ~m.hasRest \/ m.rest[1] = "#"
\* a router that lets a line open a block one level below the innermost one
TooDeepByTwo(indent, depth) == indent > depth
\* a router that refuses no indentation
TooDeepNever(indent, depth) == FALSE
\* the indentation the router refuses with the parser stack as it is
TooDeep(indent, depth) == indent > depth - 1

\* appendLine of the parser on top of the stack: [err, R, parser]
AppendLine(top, R, T, line) ==
    IF top.kind = "RootParser" THEN RootAppendLine(R, T, line)
    ELSE LET done == ParamAppendLine(R, top, T)
         IN  [err |-> done.err, R |-> done.R, parser |-> NoParser]

\* the line handed to the parser on top of what the router kept of the
\* stack: [R, stack, outcome] after it
Dispatch(kept, R, line, indent, lineIndex) ==
    Const(NewTokens(line, indent), LAMBDA T :
        IF T.err # NoError
        THEN [R |-> R, stack |-> kept, outcome |-> ThrownAt(T.err, lineIndex)]
        ELSE Const(AppendLine(kept[Len(kept)], R, T, line), LAMBDA done :
                [R |-> done.R,
                 stack |-> IF done.err = NoError /\ done.parser # NoParser
                           THEN Append(kept, done.parser) ELSE kept,
                 outcome |-> IF done.err # NoError THEN ThrownAt(done.err, lineIndex)
                             ELSE Running]))

\* while( stack.length - 1 > indent) stack.pop().end(): the stack it leaves
\* (the end() of a ParameterParser does nothing)
PopTo(parsers, indent) ==
    IF Len(parsers) - 1 > indent THEN SubSeq(parsers, 1, indent + 1) ELSE parsers

\* one turn of the loop of parse on a line, the parse being at lineIndex
\* with the given stack and root parser: [R, stack, outcome] after it
Route(parsers, R, line, lineIndex) ==
    LET m == LineExec(line)
        indent == m.tabs
        throw(err) == [R |-> R, stack |-> parsers, outcome |-> ThrownAt(err, lineIndex)]
    IN  IF ~m.matched
        THEN throw(OtherError("TypeError", "cannot read properties of null"))
        ELSE IF Skipped(m) THEN [R |-> R, stack |-> parsers, outcome |-> Running]
        ELSE IF m.rest[1] = " "
        THEN throw(ParseError(indent, "space-indentation is illegal", <<>>))
        ELSE IF TooDeep(indent, Len(parsers))
        THEN throw(ParseError(indent, "wrong indentation", <<>>))
        ELSE Dispatch(PopTo(parsers, indent), R, line, indent, lineIndex)

\* the loop of parse takes the next line of the script
ParseLine(line) ==
    \E after \in {Route(stack, RootState, line, Len(lines))} :
        /\ lines' = Append(lines, line)
        /\ stack' = after.stack
        /\ heap' = after.R.heap
        /\ aliases' = after.R.aliases
        /\ references' = after.R.references
        /\ transitions' = after.R.transitions
        /\ defaultPresetAllowed' = after.R.defaultPresetAllowed
        /\ outcome' = after.outcome
        /\ UNCHANGED <<apiSpace, lastGet, callVars>>

\* the end of the script: the stack is unwound and the root parser's end()
\* gives the transitions
ParseEnd ==
    /\ stack' = <<stack[1]>>
    /\ outcome' = Returned(transitions)
    /\ UNCHANGED <<heap, apiSpace, lastGet, lines, aliases, references, transitions,
                   defaultPresetAllowed, callVars>>

Init ==
    /\ heap = RootHeap
    /\ lines = <<>>
    /\ stack = <<RootParserEntry>>
    /\ aliases = [n \in {} |-> <<>>]
    /\ references = [n \in {} |-> 0]
    /\ transitions = <<>>
    /\ defaultPresetAllowed = [domain \in Domains |-> TRUE]
    /\ outcome = Running
    /\ parses = 1 /\ registry = NewCodecConfig(PropertySpaces)
    \* no client of the object model
    /\ apiSpace = [n \in {} |-> NO_TYPE] /\ lastGet = NoCall
    /\ call = Idle

Next ==
    \/ /\ outcome.state = "running" /\ Len(lines) < MaxLines
       /\ \E line \in LinePool : ParseLine(line)
    \/ /\ outcome.state = "running" /\ Len(lines) >= 1
       /\ ParseEnd

Spec == Init /\ [][Next]_vars

\* lines with lists of bases
BaseLine ==
    LET Rectangle == <<"R", "e", "c", "t", "a", "n", "g", "l", "e">>
        EntityPreset == <<"E", "n", "t", "i", "t", "y", "P", "r", "e", "s", "e", "t">>
        appears == <<" ", "a", "p", "p", "e", "a", "r", "s">>
        ep == <<" ", "[", "e", "p", "]">>
        tp == <<" ", "[", "t", "p", "]">>
    IN  [ \* ep: EntityPreset
          entityPreset |-> <<"e", "p", ":", " ">> \o EntityPreset,
          \* e2: EntityPreset [ep]
          derivedPreset |-> <<"e", "2", ":", " ">> \o EntityPreset \o ep,
          \* Rectangle [ep] appears, Rectangle [ep e2] appears [tp]
          ofPreset |-> Rectangle \o ep \o appears,
          ofPresets |-> Rectangle \o <<" ", "[", "e", "p", " ", "e", "2", "]">> \o appears \o tp,
          \* Rectangle [] appears
          ofNone |-> Rectangle \o <<" ", "[", "]">> \o appears,
          \* Rectangle [tp] appears, Screen [ep] appears: presets of
          \* another flavor
          ofTransitionPreset |-> Rectangle \o tp \o appears,
          screenOfEntityPreset |-> <<"S", "c", "r", "e", "e", "n">> \o ep \o appears,
          \* Rectangle [zz] appears: zz is no id of the script
          ofUndefined |-> Rectangle \o <<" ", "[", "z", "z", "]">> \o appears,
          \* Rectangle [box] appears: box is an entity
          ofSubject |-> Rectangle \o <<" ", "[", "b", "o", "x", "]">> \o appears,
          \* box appears [tp], box appears [ep]
          triggerOfPreset |-> BOX \o appears \o tp,
          triggerOfEntityPreset |-> BOX \o appears \o ep ]


\* lines that name the property of the client
ClientLine ==
    [ \* Screen appears
      screenAppears |-> <<"S", "c", "r", "e", "e", "n", " ", "a", "p", "p", "e", "a", "r", "s">>,
      \* <tab>p := 1
      set |-> <<"\t", "p", " ", ":", "=", " ", "1">>,
      \* <tab>p @ 1
      cascade |-> <<"\t", "p", " ", "@", " ", "1">> ]
\* lines that set values: numbers, texts with escape sequences, and values
\* followed by one more token
ValueLine ==
    LET x == <<"\t", "x", " ", ":", "=", " ">>
        text == <<"\t", "t", "e", "x", "t", " ", ":", "=", " ", "'">>
        zz == <<" ", "z", "z">>
    IN  [ \* <tab>x := 5, <tab>x := -5, <tab>x := -0.5
          five |-> x \o <<"5">>,
          minusFive |-> x \o <<"-", "5">>,
          minusHalf |-> x \o <<"-", "0", ".", "5">>,
          \* <tab>text := '\na', <tab>text := 'a\n'
          escapeFirst |-> text \o <<"\\", "n", "a", "'">>,
          escapeLater |-> text \o <<"a", "\\", "n", "'">>,
          \* <tab>text := '\qa', <tab>text := 'a\q': \q is no escape sequence
          unsupportedFirst |-> text \o <<"\\", "q", "a", "'">>,
          unsupportedLater |-> text \o <<"a", "\\", "q", "'">>,
          \* <tab>fill-color := #ff0000 zz, <tab>duration @ 2 s zz
          colorAndMore |-> Line.fill \o zz,
          durationAndMore |-> Line.duration \o zz,
          \* Rectangle appears auto, Rectangle appears auto zz
          auto |-> Line.rectangleAppears \o <<" ", "a", "u", "t", "o">>,
          autoAndMore |-> Line.rectangleAppears \o <<" ", "a", "u", "t", "o">> \o zz ]
\* the lines of the scripts about names, of those that name bases, of those
\* parsed with an extended registry, and of those that set values
Pool ==
    [ names |->
          {Line.box, Line.boxAppears, Line.rectangleAppears, Line.trigger,
           Line.transitionPreset, Line.fill, Line.duration, Line.unknownParam}
          \cup {NameLine[name] : name \in DOMAIN NameLine},
      bases |->
          {Line.box, Line.transitionPreset, Line.rectangleAppears}
          \cup {BaseLine[name] : name \in DOMAIN BaseLine},
      client |->
          {Line.rectangleAppears, Line.box, Line.transitionPreset, Line.fill,
           Line.duration, NameLine.entityPreset}
          \cup {ClientLine[name] : name \in DOMAIN ClientLine},
      values |->
          {Line.rectangleAppears, Line.fill, Line.duration}
          \cup {ValueLine[name] : name \in DOMAIN ValueLine},
      twice |->
          {Line.box, Line.boxAppears, Line.trigger, Line.fill, Line.unknownParam,
           Line.transitionPreset, NameLine.entityPreset, BaseLine.entityPreset} ]

\* parse on the scripts made of the lines of a pool
NextOver(pool) ==
    \/ /\ outcome.state = "running" /\ Len(lines) < MaxLines
       /\ \E line \in pool : ParseLine(line)
    \/ /\ outcome.state = "running" /\ Len(lines) >= 1
       /\ ParseEnd
SpecNames == Init /\ [][NextOver(Pool.names)]_vars
SpecBases == Init /\ [][NextOver(Pool.bases)]_vars
SpecValues == Init /\ [][NextOver(Pool.values)]_vars


\* parse with a registry the client's space was added to, in any of the
\* domains, before the parse
InitClient ==
    /\ \E domains \in SUBSET Domains :
          /\ registry = NewCodecConfig(ExtendedIn(domains))
          /\ heap = RootHeapOver(registry.spaces)
    /\ lines = <<>>
    /\ stack = <<RootParserEntry>>
    /\ aliases = [n \in {} |-> <<>>]
    /\ references = [n \in {} |-> 0]
    /\ transitions = <<>>
    /\ defaultPresetAllowed = [domain \in Domains |-> TRUE]
    /\ outcome = Running
    /\ parses = 1
    /\ apiSpace = [n \in {} |-> NO_TYPE] /\ lastGet = NoCall
    /\ call = Idle
SpecClient == InitClient /\ [][NextOver(Pool.client)]_vars


(***************************************************************************)
(* Properties of get().                                                    *)
(***************************************************************************)
Queried == lastGet # NoCall
QObj == heap[lastGet.obj]
QName == lastGet.name
QValid == GetType(QObj.propertySpace, QName) # NO_TYPE

\* the objects an object inherits from, directly or through its bases
RECURSIVE Ancestors(_, _)
Ancestors(h, o) ==
    UNION {{h[o].inherited[i]} \cup Ancestors(h, h[o].inherited[i]) :
              i \in 1..Len(h[o].inherited)}

\* the length of the longest inheritance chain below an object
RECURSIVE Depth(_, _)
Depth(h, o) ==
    IF Len(h[o].inherited) = 0 THEN 0
    ELSE 1 + CHOOSE d \in {Depth(h, h[o].inherited[i]) : i \in 1..Len(h[o].inherited)} :
                 \A i \in 1..Len(h[o].inherited) : Depth(h, h[o].inherited[i]) <= d

\* The definer of a name that is closest to an object, as <<value, hops>>,
\* hops being counted additively along the inherited lists; among definers
\* at the same number of hops, the one reached through the last-listed
\* base.  <<UNDEFINED, -1>> when nothing defines the name.
RECURSIVE Closest(_, _, _), ClosestAmong(_, _, _, _, _)
ClosestAmong(h, o, name, i, best) ==
    IF i < 1 THEN best
    ELSE LET c == Closest(h, h[o].inherited[i], name)
         IN  IF c[2] >= 0 /\ (best[2] < 0 \/ c[2] + 1 < best[2])
             THEN ClosestAmong(h, o, name, i - 1, <<c[1], c[2] + 1>>)
             ELSE ClosestAmong(h, o, name, i - 1, best)
Closest(h, o, name) ==
    IF LocalGet(h[o], name) # UNDEFINED THEN <<LocalGet(h[o], name), 0>>
    ELSE ClosestAmong(h, o, name, Len(h[o].inherited), <<UNDEFINED, -1>>)

\* C1: an object without a local value for a valid name, inheriting from
\* exactly one base that has the local value v, answers get(name) with v.
C1_SingleBaseValue ==
    (/\ Queried /\ QValid
     /\ LocalGet(QObj, QName) = UNDEFINED
     /\ Len(QObj.inherited) = 1
     /\ LocalGet(heap[QObj.inherited[1]], QName) # UNDEFINED)
    => lastGet.result = Return(LocalGet(heap[QObj.inherited[1]], QName))

\* C2: an object without a local value inheriting from [A, B], both of
\* which have a local value for the name, answers get(name) with B's value.
C2_LastBaseWins ==
    (/\ Queried /\ QValid
     /\ LocalGet(QObj, QName) = UNDEFINED
     /\ Len(QObj.inherited) = 2
     /\ LocalGet(heap[QObj.inherited[1]], QName) # UNDEFINED
     /\ LocalGet(heap[QObj.inherited[2]], QName) # UNDEFINED)
    => lastGet.result = Return(LocalGet(heap[QObj.inherited[2]], QName))

\* C3: in every inheritance graph get(name) answers with the local value of
\* the definer at the smallest additive hop distance, ties going to the
\* definer reached through the last-listed base.
C3_ClosestDefinerWins ==
    (Queried /\ QValid)
    => lastGet.result = Return(Closest(heap, lastGet.obj, QName)[1])

\* C4: get(name) throws for a name the property space does not define, and
\* returns undefined for a valid name that neither the object nor any object
\* it inherits from, at any depth, sets locally.
C4_UnknownThrowsUnsetUndefined ==
    Queried =>
       /\ ~QValid => lastGet.result = Throw("Error", "property name undefined")
       /\ (/\ QValid
           /\ \A a \in {lastGet.obj} \cup Ancestors(heap, lastGet.obj) :
                 LocalGet(heap[a], QName) = UNDEFINED)
          => lastGet.result = Return(UNDEFINED)

\* C4's case: a query of an unset valid name through a chain of depth two
\* with two bases at the top, answered with undefined
C4_Witness ==
    /\ Queried /\ QValid
    /\ Depth(heap, lastGet.obj) >= 2
    /\ \A a \in {lastGet.obj} \cup Ancestors(heap, lastGet.obj) :
          LocalGet(heap[a], QName) = UNDEFINED
    /\ lastGet.result = Return(UNDEFINED)

(***************************************************************************)
(* Properties of parse().                                                  *)
(***************************************************************************)
HasThrown == outcome.state = "thrown"
HasReturned == outcome.state = "returned"
\* the line read last, and whether the parse failed on it with a problem
LastLine == lines[Len(lines)]
ThrownWith(class, problem) ==
    /\ HasThrown /\ outcome.lineIndex = Len(lines) - 1
    /\ outcome.err.class = class /\ outcome.err.problem = problem
\* the lines read are the first lines of a document
Within(document) ==
    Len(lines) <= Len(document) /\ lines = SubSeq(document, 1, Len(lines))
\* the objects of a class
InstancesOf(class) == {o \in 1..Len(heap) : heap[o].class = class}

\* the documents of C5: as the claim has it, and with an inline transition
\* and a bare colour code
AnonymousQuoted == <<Line.rectangle, Line.fillQuoted>>
AnonymousAppears == <<Line.rectangleAppears, Line.fill>>

\* C5 as stated: the document `Rectangle` / <tab>`fill-color := '#ff0000'`
\* parses without error to one Rectangle whose fill-color is
\* Color.of('#ff0000').
C5_AnonymousWithoutTransition ==
    /\ Within(AnonymousQuoted) => ~HasThrown
    /\ (lines = AnonymousQuoted /\ HasReturned) =>
          \E o \in InstancesOf("Rectangle") :
             /\ InstancesOf("Rectangle") = {o}
             /\ SparseGet(heap, o, FILL_COLOR) = Return(ColorOf(RED))

\* C5: the document `Rectangle appears` / <tab>`fill-color := #ff0000`
\* parses without error to one transition on the one Rectangle, whose
\* fill-color is Color.of('#ff0000'); an anonymous subject line without an
\* inline transition fails with "transition type expected: EOL", the named
\* form without one is accepted, and a quoted colour code is refused.
C5_AnonymousWithTransition ==
    /\ Within(AnonymousAppears) => ~HasThrown
    /\ (lines = AnonymousAppears /\ HasReturned) =>
          \E o \in InstancesOf("Rectangle") :
             /\ InstancesOf("Rectangle") = {o}
             /\ heap[o].name = UNDEFINED
             /\ SparseGet(heap, o, FILL_COLOR) = Return(ColorOf(RED))
             /\ Len(outcome.result) = 1
             /\ heap[outcome.result[1]].class = "Appears"
             /\ heap[outcome.result[1]].target = o
    /\ (Len(lines) >= 1 /\ LastLine = Line.rectangle) =>
          /\ ThrownWith("ParseError", "transition type expected")
          /\ outcome.err.about = EOL /\ outcome.err.column = Len(Line.rectangle)
    /\ lines = <<Line.box>> => ~HasThrown
    /\ lines = <<Line.rectangleAppears, Line.fillQuoted>> =>
          ThrownWith("ParseError", "color code expected")

C5_Witness ==
    /\ lines = AnonymousAppears /\ HasReturned
    /\ \E o \in InstancesOf("Rectangle") :
          SparseGet(heap, o, FILL_COLOR) = Return(ColorOf(RED))

\* the documents of C6: as the claim has it, and with the transition inline
NestedTransition == <<Line.box, Line.appears, Line.durationDeep, Line.trigger>>
InlineTransition == <<Line.boxAppears, Line.duration, Line.trigger>>
\* the transitions returned are two, on the Rectangle named box, the first
\* with a duration of 2000 ms of its own, the second not automatic
TwoTransitionsOnBox ==
    /\ Len(outcome.result) = 2
    /\ BOX \in DOMAIN references
    /\ heap[references[BOX]].class = "Rectangle"
    /\ heap[references[BOX]].name = Str(BOX)
    /\ InstancesOf("Rectangle") = {references[BOX]}
    /\ \A i \in 1..2 : /\ heap[outcome.result[i]].class = "Appears"
                       /\ heap[outcome.result[i]].target = references[BOX]
    /\ outcome.result[1] # outcome.result[2]
    /\ LocalGet(heap[outcome.result[1]], DURATION) = Num(2000)
    /\ SparseGet(heap, outcome.result[1], DURATION) = Return(Num(2000))
    /\ heap[outcome.result[2]].auto = Bool(FALSE)

\* C6 as stated: the document `box: Rectangle` / <tab>`appears` /
\* <tab><tab>`duration @ 2 s` / `box appears` parses and returns two
\* transitions on the Rectangle named box, the first with duration 2000 ms,
\* the second not automatic.
C6_NestedTransitionBlock ==
    /\ Within(NestedTransition) => ~HasThrown
    /\ (lines = NestedTransition /\ HasReturned) => TwoTransitionsOnBox

\* C6: the document `box: Rectangle appears` / <tab>`duration @ 2 s` /
\* `box appears` parses and returns two transitions on the Rectangle named
\* box, the first with duration 2000 ms set through `@`, the second without
\* a duration of its own, neither automatic; a transition on a line of its
\* own inside the block of `box: Rectangle` is refused, a block line having
\* to be a `:=`, `=` or `@` line.
C6_InlineTransitionBlock ==
    /\ Within(InlineTransition) => ~HasThrown
    /\ (lines = InlineTransition /\ HasReturned) =>
          /\ TwoTransitionsOnBox
          /\ heap[outcome.result[1]].auto = Bool(FALSE)
          /\ LocalGet(heap[outcome.result[2]], DURATION) = UNDEFINED
    /\ lines = <<Line.box, Line.appears>> =>
          /\ ThrownWith("ParseError", "\":=\", \"=\", or \"@\" expected")
          /\ outcome.err.about = EOL /\ outcome.err.column = Len(Line.appears)

C6_Witness == lines = InlineTransition /\ HasReturned /\ TwoTransitionsOnBox

\* the lines of the pool that name the property zz, which no space defines
UnknownNameLines == {Line.unknownSet, Line.unknownParam, Line.unknownCascade}
UnknownProblems ==
    {"unknown property", "unknown transition parameter", "unknown transition property"}
\* the line read last names zz and went to the ParameterParser of a block
\* (a thrown appendLine leaves that parser on top of the stack)
UnknownNameInBlock ==
    /\ Len(lines) >= 2 /\ LastLine \in UnknownNameLines
    /\ Len(stack) = 2 /\ ~HasReturned
\* the operator of the line read last, and the columns of its name and of
\* its operator
LastOperator == NewTokens(LastLine, 1).tokens[2].value
NameColumn == NewTokens(LastLine, 1).tokens[1].position
OperatorColumn == NewTokens(LastLine, 1).tokens[2].position
\* the error of the block of parser P for an operator it does not allow,
\* "" when it allows the operator
BlockProblem(P, operator) ==
    LET onPreset == heap[P.target].class = "TransitionPreset"
    IN  CASE operator = <<":", "=">> ->
               IF ~P.newTarget THEN ":= only allowed in target defining blocks"
               ELSE IF onPreset THEN ":= not allowed in transition preset blocks"
               ELSE ""
          [] operator = <<"=">> ->
               IF P.transition # 0 THEN ""
               ELSE IF onPreset THEN "transition parameters not allowed in presets"
               ELSE "no transition associated"
          [] operator = <<"@">> ->
               IF P.transition # 0 \/ onPreset THEN "" ELSE "no transition associated"
UnknownProblem(operator) ==
    CASE operator = <<":", "=">> -> "unknown property"
      [] operator = <<"=">> -> "unknown transition parameter"
      [] operator = <<"@">> -> "unknown transition property"

\* C7 as stated: a `:=`, `=` or `@` line of any block that names a property
\* or parameter the addressed object does not define fails with an "unknown
\* property" / "unknown parameter" error naming the identifier.
C7_UnknownNameAlwaysReported ==
    UnknownNameInBlock =>
       /\ HasThrown /\ outcome.err.problem \in UnknownProblems
       /\ outcome.err.about = <<"z", "z">>

\* C7: such a line fails with the "unknown ..." error naming the identifier,
\* at the column of the name, when its operator is allowed in the block;
\* when it is not, the line fails with the error of the block instead, at
\* the column of the operator and without the identifier.
C7_UnknownNameReportedWhereAllowed ==
    UnknownNameInBlock =>
       IF BlockProblem(stack[2], LastOperator) = ""
       THEN /\ ThrownWith("ParseError", UnknownProblem(LastOperator))
            /\ outcome.err.about = <<"z", "z">>
            /\ outcome.err.column = NameColumn
       ELSE /\ ThrownWith("ParseError", BlockProblem(stack[2], LastOperator))
            /\ outcome.err.about = <<>>
            /\ outcome.err.column = OperatorColumn

C7_Witness ==
    /\ UnknownNameInBlock /\ LastLine = Line.unknownSet
    /\ BlockProblem(stack[2], LastOperator) = ""
    /\ ThrownWith("ParseError", "unknown property")

\* the position of the first space of a line's leading run of tabs and
\* spaces, -1 when the run has none
FirstLeadingSpace(line) ==
    LET run == Run(line, 0, {"\t", " "})
        spaces == {p \in 0..(run - 1) : line[p + 1] = " "}
    IN  IF spaces = {} THEN -1 ELSE CHOOSE p \in spaces : \A q \in spaces : p <= q

\* C8: a line read after accepted lines, whose leading run of tabs and
\* spaces has a space, fails the parse with a ParseError at that line and at
\* the column of the first space of the run.
C8_SpaceIndentationRejected ==
    (Len(lines) >= 1 /\ FirstLeadingSpace(LastLine) >= 0) =>
       /\ HasThrown /\ outcome.err.class = "ParseError"
       /\ outcome.lineIndex = Len(lines) - 1
       /\ outcome.err.column = FirstLeadingSpace(LastLine)

\* a line the router neither skips nor refuses for its spaces
Significant(line) ==
    /\ LineExec(line).matched /\ ~Skipped(LineExec(line))
    /\ LineExec(line).rest[1] # " "
Indent(line) == LineExec(line).tabs
WrongIndentation == HasThrown /\ outcome.err.problem = "wrong indentation"

\* C9 as stated: a significant line is accepted when its indentation is at
\* most one greater than the stack depth minus one; "wrong indentation" is
\* raised only for a line more than one level deeper.
C9_OneLevelDeeperAccepted ==
    (Len(lines) >= 1 /\ Significant(LastLine) /\ WrongIndentation)
    => Indent(LastLine) > (Len(stack) - 1) + 1

\* C9: a significant line is refused with "wrong indentation", at the line
\* and at the column of its indentation, exactly when its indentation is
\* greater than the stack depth minus one: a line one level deeper than the
\* innermost block is refused already.
C9_DeeperThanInnermostRefused ==
    [][\A line \in LinePool :
          (lines' = Append(lines, line) /\ Significant(line)) =>
             (/\ outcome'.state = "thrown"
              /\ outcome'.err = ParseError(Indent(line), "wrong indentation", <<>>)
              /\ outcome'.lineIndex = Len(lines))
             <=> (Indent(line) > Len(stack) - 1)]_vars

C9_Witness ==
    /\ Len(lines) >= 2 /\ Significant(LastLine) /\ WrongIndentation
    /\ Indent(LastLine) = Len(stack)

\* an empty line, a line of tabs, or a line whose first character after its
\* tabs is #
BlankOrComment(line) ==
    LET tabs == Run(line, 0, {"\t"}) IN Len(line) = tabs \/ line[tabs + 1] = "#"

\* C10: a blank or comment-only line changes nothing a parse goes by: the
\* step that reads one leaves the stack, the root parser and the outcome as
\* they were, so that the parse goes on as it would without the line.
C10_BlankAndCommentLinesSkipped ==
    [][\A line \in LinePool :
          (lines' = Append(lines, line) /\ BlankOrComment(line)) =>
             UNCHANGED <<stack, heap, aliases, references, transitions,
                         defaultPresetAllowed, outcome>>]_vars

\* a line of the root level that names a transition kind after its first
\* token: inline on a target definition, or triggered on an id
NamesTransition(line) ==
    /\ LineExec(line).matched /\ ~Skipped(LineExec(line)) /\ Indent(line) = 0
    /\ \E i \in 2..Len(NewTokens(line, 0).tokens) :
          /\ NewTokens(line, 0).tokens[i].name = "id"
          /\ GetTransitionType(NewTokens(line, 0).tokens[i].value) # "undefined"
\* the lines read that name a transition kind, by their place in the script
TransitionLines ==
    SelectSeq([i \in 1..Len(lines) |-> i], LAMBDA i : NamesTransition(lines[i]))
\* the object a root-level line is about: the one its id is bound to, or the
\* unnamed subject the line defines
IsTargetOf(o, line) ==
    IF NewTokens(line, 0).tokens[1].name = "id"
    THEN /\ NewTokens(line, 0).tokens[1].value \in DOMAIN references
         /\ references[NewTokens(line, 0).tokens[1].value] = o
    ELSE heap[o].name = UNDEFINED /\ heap[o].class \notin PresetClasses

\* C11: a parse that returns gives exactly the transitions the document
\* created, one for each line that names a transition kind and in the order
\* of those lines, each on the target of its line; other lines add nothing.
C11_TransitionsInLineOrder ==
    HasReturned =>
       /\ Len(outcome.result) = Len(TransitionLines)
       /\ {outcome.result[k] : k \in 1..Len(outcome.result)} = InstancesOf("Appears")
       /\ \A k \in 1..Len(outcome.result) :
             /\ \A j \in 1..(k - 1) : outcome.result[j] < outcome.result[k]
             /\ IsTargetOf(heap[outcome.result[k]].target, lines[TransitionLines[k]])

\* two transitions on different targets, and a line that adds none
C11_Witness ==
    /\ HasReturned /\ Len(outcome.result) = 2
    /\ heap[outcome.result[1]].target # heap[outcome.result[2]].target
    /\ \E i \in 1..Len(lines) : lines[i] = Line.transitionPreset

\* the line that opened the block being read: the last line of the root level
Header ==
    lines[CHOOSE i \in 1..Len(lines) :
             /\ Significant(lines[i]) /\ Indent(lines[i]) = 0
             /\ \A j \in (i + 1)..Len(lines) :
                   ~(Significant(lines[j]) /\ Indent(lines[j]) = 0)]
\* a line of the root level that defines its target: <type> ... or <id>: ...
DefinesTarget(line) ==
    \/ NewTokens(line, 0).tokens[1].name = "type"
    \/ /\ Len(NewTokens(line, 0).tokens) >= 2
       /\ NewTokens(line, 0).tokens[2].name = "colon"
\* a line of a block of the form <id> <operator> ..., the operator a token
\* of the given name
OperatorLine(line, operator) ==
    /\ Significant(line) /\ Indent(line) = 1
    /\ NewTokens(line, 1).err = NoError
    /\ Len(NewTokens(line, 1).tokens) >= 2
    /\ NewTokens(line, 1).tokens[1].name = "id"
    /\ NewTokens(line, 1).tokens[2].name = operator
\* the step reads the line as a line of an open block
ReadsInBlock(line) == lines' = Append(lines, line) /\ Len(stack) = 2
\* the step refuses the line with a ParseError at the line's operator and
\* leaves every object as it was
RefusedAtOperator(line) ==
    /\ outcome'.state = "thrown" /\ outcome'.err.class = "ParseError"
    /\ outcome'.lineIndex = Len(lines)
    /\ outcome'.err.column = NewTokens(line, 1).tokens[2].position
    /\ heap' = heap

\* C12: a `:=` line is accepted only in the block under a line that defines
\* a new view, entity, view preset or entity preset; in the block under a
\* triggered transition and in a TransitionPreset block it raises a
\* ParseError and changes no property.
C12_SetOnlyInDefiningBlocks ==
    [][\A line \in Pool.names :
          (ReadsInBlock(line) /\ OperatorLine(line, "coloneq")) =>
             LET allowed ==
                    /\ DefinesTarget(Header)
                    /\ heap[stack[2].target].class \in
                          ViewClasses \cup EntityClasses \cup {"ViewPreset", "EntityPreset"}
             IN  /\ outcome'.state = "running" => allowed
                 /\ ~allowed => RefusedAtOperator(line)]_vars

\* a `:=` line accepted under a new entity, and one refused under a
\* transition triggered on that entity
C12_Witness ==
    /\ lines = <<Line.box, Line.fill, Line.trigger, Line.fill>>
    /\ heap[references[BOX]].local # NoLocal
    /\ ThrownWith("ParseError", ":= only allowed in target defining blocks")

\* the active transition of the open block: the one its header created, 0
\* when the header names no transition kind
ActiveTransition ==
    IF NamesTransition(Header) THEN transitions[Len(transitions)] ELSE 0
\* the objects a `:=` line may set
SetTargets ==
    {o \in 1..Len(heap) :
        heap[o].class \in ViewClasses \cup EntityClasses \cup {"ViewPreset", "EntityPreset"}}
\* the step accepts the line and sets its property on the object o alone
SetsOn(o, line) ==
    /\ outcome'.state = "running"
    /\ LocalGet(heap'[o], NewTokens(line, 1).tokens[1].value) # UNDEFINED
    /\ \A other \in 1..Len(heap) : other # o => heap'[other] = heap[other]

\* C13: a `@` line sets its property on the active transition of the block
\* when there is one, on the target when the target is a TransitionPreset,
\* and is refused with a ParseError otherwise; a `=` line is refused with a
\* ParseError whenever the block has no active transition; neither operator
\* changes a view, an entity, a view preset or an entity preset.
C13_TransitionOperatorsNeedTransition ==
    [][\A line \in Pool.names :
          /\ (ReadsInBlock(line) /\ OperatorLine(line, "at")) =>
                LET accepted == outcome'.state = "running" \/ line = Line.duration
                IN  IF ActiveTransition # 0
                    THEN accepted => SetsOn(ActiveTransition, line)
                    ELSE IF heap[stack[2].target].class = "TransitionPreset"
                    THEN accepted => SetsOn(stack[2].target, line)
                    ELSE RefusedAtOperator(line)
          /\ (ReadsInBlock(line) /\ OperatorLine(line, "eq") /\ ActiveTransition = 0)
                => RefusedAtOperator(line)
          /\ (ReadsInBlock(line) /\ (OperatorLine(line, "at") \/ OperatorLine(line, "eq")))
                => \A o \in SetTargets : heap'[o] = heap[o]]_vars

\* a `@` line set on the transition of a block, and one refused in the
\* block of an entity defined without a transition
C13_Witness ==
    /\ \E t \in InstancesOf("Appears") : LocalGet(heap[t], DURATION) # UNDEFINED
    /\ LastLine = Line.duration /\ Len(stack) = 2
    /\ heap[stack[2].target].class = "Rectangle"
    /\ ThrownWith("ParseError", "no transition associated")

\* C14: an alias definition line <id> := <name>, its right-hand side a
\* valid name and its id neither an alias nor a registered name, is accepted
\* and binds the alias to the name.
C14_AliasDefinitionBinds ==
    (Len(lines) >= 1 /\ LastLine = NameLine.alias) =>
       /\ ~HasThrown
       /\ <<"a">> \in DOMAIN aliases
       /\ aliases[<<"a">>] = <<"a", "p", "p", "e", "a", "r", "s">>

\* C15: the target of every transition a parse returns is a view or an
\* entity, never a preset: a triggered transition is accepted only on the id
\* of a view or entity.
C15_TransitionTargetsAreSubjects ==
    HasReturned =>
       \A k \in 1..Len(outcome.result) :
          heap[heap[outcome.result[k]].target].class \in ViewClasses \cup EntityClasses

\* C17: every failure of parse is a ParseError, which carries the line and
\* the column of the offending place; parse fails with no other error.
C17_EveryFailureIsParseError ==
    HasThrown => outcome.err.class = "ParseError"

\* C18: the default preset of a flavor can be defined only once: a second
\* anonymous preset line of the flavor raises a ParseError, also when no named
\* preset of the flavor was declared before it.
C18_DefaultPresetDefinedOnce ==
    (/\ Len(lines) >= 2 /\ LastLine = NameLine.entityPreset
     /\ \E i \in 1..(Len(lines) - 1) : lines[i] = NameLine.entityPreset)
    => /\ HasThrown /\ outcome.err.class = "ParseError"
       /\ outcome.lineIndex = Len(lines) - 1

\* a line of the root level that defines a target under an id
NamedDefinition(line) ==
    /\ Significant(line) /\ Indent(line) = 0
    /\ Len(NewTokens(line, 0).tokens) >= 3
    /\ NewTokens(line, 0).tokens[1].name = "id"
    /\ NewTokens(line, 0).tokens[2].name = "colon"
    /\ NewTokens(line, 0).tokens[3].name = "type"
    /\ GetSubjectType(NewTokens(line, 0).tokens[3].value) # "undefined"
DefinedId(line) == NewTokens(line, 0).tokens[1].value

\* C19: an id is bound at most once: a named target definition whose id is
\* bound already, to a view, an entity or a preset of any flavor, raises the
\* "id collision" ParseError at the id, and a step of the parse leaves every
\* id bound to the object it was bound to.
C19_IdsBoundOnce ==
    [][/\ \A id \in DOMAIN references :
             /\ id \in DOMAIN references' /\ references'[id] = references[id]
             /\ heap'[references[id]].class = heap[references[id]].class
             /\ heap'[references[id]].name = heap[references[id]].name
       /\ \A line \in Pool.names :
             (/\ lines' = Append(lines, line) /\ NamedDefinition(line)
              /\ DefinedId(line) \in DOMAIN references)
             => /\ outcome'.state = "thrown"
                /\ outcome'.err = ParseError(0, "id collision", DefinedId(line))
                /\ outcome'.lineIndex = Len(lines)]_vars

\* an entity definition refused for an id bound to a preset, and a preset
\* definition refused for an id bound to an entity
C19_Witness ==
    /\ Len(lines) >= 2 /\ ThrownWith("ParseError", "id collision")
    /\ \/ /\ LastLine = Line.box
          /\ heap[references[BOX]].class = "EntityPreset"
       \/ /\ LastLine = NameLine.boxPreset
          /\ heap[references[BOX]].class = "Rectangle"

\* the tokens of a line of the root level
RootTokens(line) == NewTokens(line, 0).tokens
\* the place of the type token among the tokens T of a line: 1 in
\* <type> ..., 3 in <id>: <type> ..., 0 when the line names no type
TypeIndex(T) ==
    IF T[1].name = "type" THEN 1
    ELSE IF Len(T) >= 3 /\ T[2].name = "colon" THEN 3
    ELSE 0
\* a list of bases opens at token k
ListAt(T, k) == k <= Len(T) /\ T[k].name = "lbracket"
\* the tokens of the list of bases that opens at token k: none when no list
\* opens there
BaseTokens(T, k) ==
    IF ~ListAt(T, k) THEN <<>>
    ELSE LET close == CHOOSE j \in (k + 1)..Len(T) :
                         /\ T[j].name = "rbracket"
                         /\ \A i \in (k + 1)..(j - 1) : T[i].name # "rbracket"
         IN  [i \in 1..(close - k - 1) |-> T[k + i]]
\* the place of the token that names the transition kind of a line
TransitionIndex(T) ==
    IF TypeIndex(T) = 0 THEN 2
    ELSE IF ~ListAt(T, TypeIndex(T) + 1) THEN TypeIndex(T) + 1
    ELSE TypeIndex(T) + 3 + Len(BaseTokens(T, TypeIndex(T) + 1))
HasTransition(T) == TransitionIndex(T) <= Len(T) /\ T[TransitionIndex(T)].name = "id"
\* the domain of the objects of a class
DomainOf(class) ==
    CASE class \in ViewClasses \cup {"ViewPreset"} -> "view"
      [] class \in EntityClasses \cup {"EntityPreset"} -> "entity"
      [] class \in {"Appears", "TransitionPreset"} -> "transition"
\* a base that is no preset of the domain declared so far
WrongBase(token, domain) ==
    \/ token.value \notin DOMAIN references
    \/ heap[references[token.value]].class # PresetClass(domain)
\* what a list of bases stands for in a domain
BasesOf(bases, domain) ==
    IF bases = <<>> THEN <<DefaultPreset(domain)>>
    ELSE [i \in 1..Len(bases) |-> references[bases[i].value]]
\* the step refuses the line with a ParseError at the first wrong base
RefusedAtBase(bases, domain) ==
    /\ outcome'.state = "thrown" /\ outcome'.err.class = "ParseError"
    /\ outcome'.lineIndex = Len(lines)
    /\ \E i \in 1..Len(bases) :
          /\ WrongBase(bases[i], domain)
          /\ \A j \in 1..(i - 1) : ~WrongBase(bases[j], domain)
          /\ outcome'.err.column = bases[i].position
\* the step accepts the line and makes the object o, of the class and with
\* the bases the line gives it
Makes(o, class, bases) ==
    /\ outcome'.state = "running" /\ Len(heap) < o /\ o <= Len(heap')
    /\ heap'[o].class = class
    /\ heap'[o].inherited = BasesOf(bases, DomainOf(class))
\* what the step does with the target a line defines, of the type and with
\* the bases named by the line
TargetStep(type, bases) ==
    IF \E i \in 1..Len(bases) : WrongBase(bases[i], DomainOf(type))
    THEN RefusedAtBase(bases, DomainOf(type)) /\ heap' = heap
    ELSE outcome'.state = "running" => Makes(Len(heap) + 1, type, bases)
\* and with the transition of a line, with the bases named by the line
TransitionStep(bases) ==
    IF \E i \in 1..Len(bases) : WrongBase(bases[i], "transition")
    THEN outcome'.state = "thrown" /\ outcome'.err.class = "ParseError"
    ELSE outcome'.state = "running" => Makes(Len(heap'), "Appears", bases)

\* C20: every object of a parse inherits only from presets of its own domain
\* declared on earlier lines; an absent or empty list of bases stands for
\* the default preset of the domain alone; a list that names an undefined id,
\* a subject or a preset of another flavor raises a ParseError.
C20_BasesAreEarlierPresetsOfTheDomain ==
    [][/\ \A o \in 1..Len(heap') : \A i \in 1..Len(heap'[o].inherited) :
             /\ heap'[o].inherited[i] < o
             /\ heap'[heap'[o].inherited[i]].class = PresetClass(DomainOf(heap'[o].class))
       /\ \A line \in Pool.bases : lines' = Append(lines, line) =>
             \A T \in {RootTokens(line)} :
                /\ TypeIndex(T) # 0 =>
                      TargetStep(GetSubjectType(T[TypeIndex(T)].value),
                                 BaseTokens(T, TypeIndex(T) + 1))
                /\ HasTransition(T) =>
                      TransitionStep(BaseTokens(T, TransitionIndex(T) + 1))]_vars

\* an entity over a preset of the script, an entity with an empty list, and
\* a line refused for a base of another flavor
C20_Witness ==
    /\ \E o \in InstancesOf("Rectangle") :
          /\ heap[o].inherited # <<DefaultPreset("entity")>>
          /\ heap[heap[o].inherited[1]].class = "EntityPreset"
    /\ \E i \in 1..Len(lines) : lines[i] = BaseLine.ofNone
    /\ LastLine = BaseLine.screenOfEntityPreset
    /\ HasThrown /\ outcome.err.class = "ParseError"
    /\ outcome.err.column = 8

\* the registry the parse runs with has the client's property in a domain:
\* the space of the domain is the one the root parser created from it
Registered(domain) ==
    CLIENT_PROPERTY \in DOMAIN heap[DefaultPreset(domain)].propertySpace
\* get( p) on the object o gives a value
GivesP(o) ==
    /\ SparseGet(heap, o, CLIENT_PROPERTY).c = "return"
    /\ SparseGet(heap, o, CLIENT_PROPERTY).val # UNDEFINED

\* C16: a property added to the registry before the parse is a property of
\* the subjects and transitions the parser creates: with p registered, a
\* line p := 1 under a new Rectangle or Screen, and a line p @ 1 under an
\* appears transition, is accepted and get( p) on the object gives the value.
C16_RegisteredPropertiesOnSubjectsAndTransitions ==
    (Len(lines) >= 2 /\ Len(stack) = 2 /\ ~HasReturned) =>
       /\ (/\ LastLine = ClientLine.set /\ stack[2].newTarget
           /\ heap[stack[2].target].class \in ViewClasses \cup EntityClasses
           /\ Registered(DomainOf(heap[stack[2].target].class)))
          => ~HasThrown /\ GivesP(stack[2].target)
       /\ (/\ LastLine = ClientLine.cascade /\ stack[2].transition # 0
           /\ Registered("transition"))
          => ~HasThrown /\ GivesP(stack[2].transition)

\* a line of the root level that opens a block: a target definition or a
\* transition triggered on an id
OpensBlock(line) ==
    \/ DefinesTarget(line)
    \/ /\ Len(NewTokens(line, 0).tokens) >= 2
       /\ NewTokens(line, 0).tokens[1].name = "id"
       /\ NewTokens(line, 0).tokens[2].name = "id"
\* the significant lines read, by their place in the script
SignificantLines == {i \in 1..Len(lines) : Significant(lines[i])}

\* C29: the parser stack holds the root parser and at most one
\* ParameterParser; no accepted document has a significant line indented by
\* two tabs or more, and a line indented by one tab is accepted only in the
\* block opened by a target definition or a triggered transition.
C29_StackDepthAtMostTwo ==
    /\ Len(stack) \in {1, 2}
    /\ stack[1].kind = "RootParser"
    /\ Len(stack) = 2 => stack[2].kind = "ParameterParser"
    /\ ~HasThrown =>
          \A i \in SignificantLines :
             /\ Indent(lines[i]) <= 1
             /\ Indent(lines[i]) = 1 =>
                   \E j \in SignificantLines :
                      /\ j < i /\ Indent(lines[j]) = 0 /\ OpensBlock(lines[j])
                      /\ \A k \in SignificantLines : (j < k /\ k < i) => Indent(lines[k]) = 1

\* two lines accepted in the block of a target definition
C29_Witness ==
    /\ ~HasThrown /\ Len(stack) = 2 /\ Len(lines) >= 3
    /\ Cardinality({i \in SignificantLines : Indent(lines[i]) = 1}) >= 2

\* the line read last went to the block of a new entity that has a
\* transition
InEntityBlock ==
    /\ Len(lines) >= 2 /\ Len(stack) = 2 /\ ~HasReturned
    /\ stack[2].newTarget /\ stack[2].transition # 0
    /\ heap[stack[2].target].class \in EntityClasses
\* the value the block's entity has for a property
EntityValue(name) == LocalGet(heap[stack[2].target], name)

\* C27: decoding a string literal replaces every escape sequence of it,
\* wherever it stands, by the character it denotes, and any other escape
\* sequence, wherever it stands, makes the parse fail with a ParseError.
C27_EveryEscapeDecoded ==
    InEntityBlock =>
       /\ LastLine = ValueLine.escapeFirst =>
             ~HasThrown /\ EntityValue(<<"t", "e", "x", "t">>) = Str(<<"\n", "a">>)
       /\ LastLine = ValueLine.escapeLater =>
             ~HasThrown /\ EntityValue(<<"t", "e", "x", "t">>) = Str(<<"a", "\n">>)
       /\ LastLine \in {ValueLine.unsupportedFirst, ValueLine.unsupportedLater} =>
             HasThrown /\ outcome.err.class = "ParseError"

\* C28: every text of the number grammar is one number token, negative
\* numbers with a non-zero integer part included: x := -5 on a float
\* property is accepted and sets x to -5.
C28_NegativeNumbersAccepted ==
    InEntityBlock =>
       /\ LastLine = ValueLine.five =>
             ~HasThrown /\ EntityValue(<<"x">>) = ParseFloat(<<"5">>)
       /\ LastLine = ValueLine.minusHalf =>
             ~HasThrown /\ EntityValue(<<"x">>) = ParseFloat(<<"-", "0", ".", "5">>)
       /\ LastLine = ValueLine.minusFive =>
             ~HasThrown /\ EntityValue(<<"x">>) = ParseFloat(<<"-", "5">>)

\* C30: a property line is accepted only if the literal, with its unit for
\* a duration, is the last token of the line: one more token after the
\* value makes the parse fail with a ParseError.
C30_NothingAfterTheValue ==
    (InEntityBlock /\ LastLine \in {ValueLine.colorAndMore, ValueLine.durationAndMore})
    => HasThrown /\ outcome.err.class = "ParseError"

(***************************************************************************)
(* A client of the library that has parsed nothing: it constructs property *)
(* spaces, extends the registry and compares types, one call at a time.    *)
(***************************************************************************)
InitCalls ==
    /\ heap = <<>> /\ apiSpace = [n \in {} |-> NO_TYPE] /\ lastGet = NoCall
    /\ lines = <<>> /\ stack = <<>> /\ aliases = <<>> /\ references = <<>>
    /\ transitions = <<>> /\ defaultPresetAllowed = <<>> /\ outcome = <<>>
    /\ parses = 0 /\ registry = NewCodecConfig(PropertySpaces) /\ call = Idle

MaxDefinitions == 2
\* the pairs a client defines: p twice with different types, q, and an
\* illegal name
PairPool ==
    {[name |-> <<"p">>, type |-> FLOAT_TYPE], [name |-> <<"p">>, type |-> COLOR_TYPE],
     [name |-> <<"q">>, type |-> FLOAT_TYPE], [name |-> <<"Q">>, type |-> FLOAT_TYPE]}
\* the spaces a client has made: a and again bind p, b binds q, over merges
\* a, both merges a and binds q, none binds nothing
SpacePool ==
    LET p == [name |-> <<"p">>, type |-> FLOAT_TYPE]
        q == [name |-> <<"q">>, type |-> FLOAT_TYPE]
        a == NewPropertySpace(1, <<p>>).space
    IN  [a |-> a,
         again |-> NewPropertySpace(2, <<p>>).space,
         b |-> NewPropertySpace(3, <<q>>).space,
         over |-> NewPropertySpace(4, <<a>>).space,
         both |-> NewPropertySpace(5, <<a, q>>).space,
         none |-> NewPropertySpace(6, <<>>).space]
\* new PropertySpace( definitions)
NewPropertySpaceCall(definitions) ==
    /\ call' = [op |-> "new PropertySpace", args |-> definitions,
                result |-> NewPropertySpace(7, definitions)]
    /\ UNCHANGED <<heap, apiSpace, lastGet, parseVars, parses, registry>>
NextSpaces ==
    \E definitions \in ListsOver(PairPool \cup {SpacePool[n] : n \in DOMAIN SpacePool},
                                 MaxDefinitions) :
        NewPropertySpaceCall(definitions)
SpecSpaces == InitCalls /\ [][NextSpaces]_vars

\* the distinct spaces a constructor merges, and how many bindings of a
\* name its definitions hold
IsSpace(definition) == "id" \in DOMAIN definition
Merged(definitions) ==
    UNION {{definitions[i]} \cup {definitions[i].subspaces[k] :
                                     k \in 1..Len(definitions[i].subspaces)} :
           i \in {j \in 1..Len(definitions) : IsSpace(definitions[j])}}
BindingsOf(definitions, name) ==
    Cardinality({i \in 1..Len(definitions) :
                    ~IsSpace(definitions[i]) /\ definitions[i].name = name})
    + Cardinality({space \in Merged(definitions) :
                      \E k \in 1..Len(space.localProperties) :
                          space.localProperties[k].name = name})
Declared(definitions, name) ==
    {definitions[i].type : i \in {j \in 1..Len(definitions) :
                                     ~IsSpace(definitions[j]) /\ definitions[j].name = name}}
    \cup UNION {{space.localProperties[k].type :
                    k \in {l \in 1..Len(space.localProperties) :
                              space.localProperties[l].name = name}} :
                space \in Merged(definitions)}
Constructs == call.op = "new PropertySpace"

\* C24 as stated: a PropertySpace constructed from two subspaces that share
\* a property name always fails.
C24_SharedNameAlwaysFails ==
    Constructs =>
        \A i, j \in 1..Len(call.args) :
            /\ IsSpace(call.args[i]) /\ IsSpace(call.args[j]) /\ call.args[i] # call.args[j]
            /\ DOMAIN call.args[i].allProperties \cap DOMAIN call.args[j].allProperties # {}
            => call.result.err # NoError

\* C24: a PropertySpace is constructed from its definitions unless a pair
\* has an illegal name or a name has two bindings among the pairs and the
\* local properties of the distinct spaces merged, a space reached twice
\* counting once; the space constructed exposes exactly the names bound,
\* each with its declared type.
C24_SpaceIsTheUnionOfDistinctSubspaces ==
    Constructs =>
        LET names == {<<"p">>, <<"q">>, <<"Q">>}
            bound == {name \in names : BindingsOf(call.args, name) >= 1}
        IN  /\ call.result.err = NoError
               <=> \A name \in bound : IdTest(name) /\ BindingsOf(call.args, name) = 1
            /\ call.result.err = NoError =>
                  /\ DOMAIN call.result.space.allProperties = bound
                  /\ \A name \in bound :
                        Declared(call.args, name) = {call.result.space.allProperties[name]}
\* two subspaces that share p through the space a they both merge
C24_Witness ==
    /\ Constructs /\ call.args = <<SpacePool.over, SpacePool.both>>
    /\ call.result.err = NoError
    /\ DOMAIN call.result.space.allProperties = {<<"p">>, <<"q">>}

(***************************************************************************)
(* A client that registers types: names and classes that are registered,   *)
(* new and legal, and illegal.                                             *)
(***************************************************************************)
TypePool ==
    [subjectNames |-> {<<"R", "e", "c", "t", "a", "n", "g", "l", "e">>, <<"D", "i", "s", "c">>,
                       <<"u", "i", ".", "P", "a", "n", "e", "l">>, <<"d", "i", "s", "c">>},
     subjectTypes |-> {"Rectangle", "Disc", "Panel", "Entity", "Fades"},
     transitionNames |-> {<<"a", "p", "p", "e", "a", "r", "s">>, <<"f", "a", "d", "e", "s">>,
                          <<"F", "a", "d", "e", "s">>},
     transitionTypes |-> {"Appears", "Fades", "Transition", "Disc"}]
\* config.extendSubjectType( name, type)
ExtendSubjectTypeCall(name, type) ==
    LET done == ExtendSubjectType(registry, name, type)
    IN  /\ registry' = done.registry
        /\ call' = [op |-> "extendSubjectType", args |-> <<name, type>>,
                    result |-> done.err]
        /\ UNCHANGED <<heap, apiSpace, lastGet, parseVars, parses>>
\* config.extendTransitionType( name, type)
ExtendTransitionTypeCall(name, type) ==
    LET done == ExtendTransitionType(registry, name, type)
    IN  /\ registry' = done.registry
        /\ call' = [op |-> "extendTransitionType", args |-> <<name, type>>,
                    result |-> done.err]
        /\ UNCHANGED <<heap, apiSpace, lastGet, parseVars, parses>>
NextTypes ==
    \/ \E name \in TypePool.subjectNames, type \in TypePool.subjectTypes :
          ExtendSubjectTypeCall(name, type)
    \/ \E name \in TypePool.transitionNames, type \in TypePool.transitionTypes :
          ExtendTransitionTypeCall(name, type)
SpecTypes == InitCalls /\ [][NextTypes]_vars

\* two tables that are each other's inverse
MutuallyInverse(byName, toName) ==
    /\ \A name \in DOMAIN byName :
          byName[name] \in DOMAIN toName /\ toName[byName[name]] = name
    /\ \A type \in DOMAIN toName :
          toName[type] \in DOMAIN byName /\ byName[toName[type]] = type
\* a call of either extend method that has to be refused
Unregistrable(byName, toName, name, type, subject) ==
    \/ name \in DOMAIN byName
    \/ type \in DOMAIN toName
    \/ IF subject
       THEN \/ ~TypeTest(name)
            \/ type \notin {"ViewPreset", "EntityPreset", "TransitionPreset", "Screen",
                            "Rectangle", "Disc", "Panel"}
       ELSE ~IdTest(name) \/ type \notin {"Appears", "Fades"}

\* C22: after every extendSubjectType or extendTransitionType call the
\* name -> class and class -> name tables of each registry are each
\* other's inverse and still hold the built-in entries; a call with a
\* registered name, a registered class, an illegal name or a class of the
\* wrong family throws and leaves the tables as they were, any other call
\* adds its one entry.
C22_TypeTablesStayInverse ==
    [][LET name == call'.args[1]
           type == call'.args[2]
           subject == call'.op = "extendSubjectType"
           byName == IF subject THEN "subjectTypesByName" ELSE "transitionTypesByName"
           toName == IF subject THEN "subjectTypesToName" ELSE "transitionTypesToName"
       IN  call'.op \in {"extendSubjectType", "extendTransitionType"} =>
           /\ MutuallyInverse(registry'.subjectTypesByName, registry'.subjectTypesToName)
           /\ MutuallyInverse(registry'.transitionTypesByName,
                              registry'.transitionTypesToName)
           /\ \A n \in DOMAIN SubjectTypesByName :
                 /\ n \in DOMAIN registry'.subjectTypesByName
                 /\ registry'.subjectTypesByName[n] = SubjectTypesByName[n]
           /\ \A n \in DOMAIN TransitionTypesByName :
                 /\ n \in DOMAIN registry'.transitionTypesByName
                 /\ registry'.transitionTypesByName[n] = TransitionTypesByName[n]
           /\ IF Unregistrable(registry[byName], registry[toName], name, type, subject)
              THEN call'.result.class = "Error" /\ registry' = registry
              ELSE /\ call'.result = NoError
                   /\ registry'[byName] = (name :> type) @@ registry[byName]
                   /\ registry'[toName] = (type :> name) @@ registry[toName]]_vars
\* Disc is registered and a second name for it has been refused
C22_Witness ==
    /\ call.op = "extendSubjectType"
    /\ call.args = << <<"u", "i", ".", "P", "a", "n", "e", "l">>, "Disc" >>
    /\ call.result.problem = "type collision"
    /\ registry.subjectTypesToName["Disc"] = <<"D", "i", "s", "c">>

(***************************************************************************)
(* A client that registers property spaces, and the merged property space  *)
(* a parse would construct for a domain.                                   *)
(***************************************************************************)
MaxSpaces == 5
\* config.extend*Properties( propertySpace)
ExtendPropertiesCall(domain, propertySpace) ==
    LET done == ExtendProperties(registry.spaces, domain, propertySpace.allProperties)
    IN  /\ registry' = [registry EXCEPT
                           !.spaces = done.spaces,
                           !.objects[domain] = IF done.err = NoError
                                               THEN Append(@, propertySpace) ELSE @]
        /\ call' = [op |-> "extendProperties", args |-> <<domain, propertySpace>>,
                    result |-> done.err]
        /\ UNCHANGED <<heap, apiSpace, lastGet, parseVars, parses>>
\* config.create*PropertySpace()
CreatePropertySpaceCall(domain) ==
    /\ call' = [op |-> "createPropertySpace", args |-> <<domain>>,
                result |-> NewPropertySpace(7, registry.objects[domain])]
    /\ UNCHANGED <<heap, apiSpace, lastGet, parseVars, parses, registry>>
NextRegistry ==
    \/ /\ Len(registry.spaces.view) + Len(registry.spaces.entity)
             + Len(registry.spaces.transition) < MaxSpaces
       /\ \E domain \in Domains, name \in DOMAIN SpacePool :
             ExtendPropertiesCall(domain, SpacePool[name])
    \/ \E domain \in Domains : CreatePropertySpaceCall(domain)
SpecRegistry == InitCalls /\ [][NextRegistry]_vars

\* C21: after every extend*Properties call the spaces registered for a
\* domain bind pairwise disjoint names; a call that is refused leaves the
\* registry as it was; and the merged space of a domain is constructed
\* without an error and binds what the registered spaces bind.
C21_RegisteredSpacesStayDisjoint ==
    [][/\ \A domain \in Domains :
             \A i, j \in 1..Len(registry'.spaces[domain]) :
                 i # j => DOMAIN registry'.spaces[domain][i]
                            \cap DOMAIN registry'.spaces[domain][j] = {}
       /\ call'.op = "extendProperties" /\ call'.result # NoError =>
             registry' = registry
       /\ call'.op = "createPropertySpace" =>
             /\ call'.result.err = NoError
             /\ call'.result.space.allProperties
                   = CreatePropertySpace(registry.spaces[call'.args[1]])]_vars
\* two spaces of a client are registered for the entity domain after the
\* built-in one, and the merged space binds their p and q
C21_Witness ==
    /\ call.op = "createPropertySpace" /\ call.args = <<"entity">>
    /\ registry.objects.entity
          = <<registry.objects.entity[1], SpacePool.over, SpacePool.b>>
    /\ call.result.err = NoError
    /\ {<<"p">>, <<"q">>} \subseteq DOMAIN call.result.space.allProperties

(***************************************************************************)
(* A client of the values: it makes a Color of a colour code and prints    *)
(* it, and it compares two property types.                                 *)
(***************************************************************************)
\* number.toString( 16) of a number below 256
HexString(n) ==
    LET digit(d) == <<"0", "1", "2", "3", "4", "5", "6", "7", "8", "9",
                      "a", "b", "c", "d", "e", "f">>[d + 1]
    IN  IF n < 16 THEN <<digit(n)>> ELSE <<digit(n \div 16), digit(n % 16)>>
\* string.padStart( 2, '0')
PadStart(chars) == IF Len(chars) < 2 THEN <<"0">> \o chars ELSE chars
\* Color.toString
ColorToString(color) ==
    <<"#">> \o PadStart(HexString(color.v[1])) \o PadStart(HexString(color.v[2]))
            \o PadStart(HexString(color.v[3]))

\* a property type as an object: id tells two types of the same content
\* apart, elements are the types it is composed of
TypeObject(id, kind, name, values, elements) ==
    [id |-> id, kind |-> kind, name |-> name, values |-> values, elements |-> elements]
\* type.equals( other)
RECURSIVE Equals(_, _)
Equals(type, other) ==
    CASE type.kind = "tuple" ->
            /\ other.kind = "tuple" /\ Len(other.elements) = Len(type.elements)
            /\ \A i \in 1..Len(type.elements) : Equals(type.elements[i], other.elements[i])
      [] type.kind = "list" ->
            other.kind = "list" /\ Equals(other.elements[1], type.elements[1])
      [] type.kind = "dictionary" ->
            other.kind = "dictionary" /\ Equals(other.elements[1], type.elements[1])
      [] OTHER -> other = type

\* the colour codes of a client: every code of three digits, and the codes
\* of six digits over a few digits
ColorCodes ==
    {<<"#", r, g, b>> : r \in HexDigits, g \in HexDigits, b \in HexDigits}
    \cup {<<"#">> \o code : code \in [1..6 -> {"0", "9", "a", "F"}]}
\* the types of a client: the singletons, and types made by separate calls
\* of EnumType.of, TupleType.of, ListType.of and DictionaryType.of
TypeObjects ==
    LET ab == << <<"a">>, <<"b">> >>
        float == TypeObject(0, "float", "float", <<>>, <<>>)
        string == TypeObject(0, "string", "string", <<>>, <<>>)
        enum == TypeObject(1, "enum", "e", ab, <<>>)
        same == TypeObject(2, "enum", "e", ab, <<>>)
        list == TypeObject(8, "list", "List<float>", <<>>, <<float>>)
    IN  {float, string, enum, same,
         TypeObject(3, "enum", "e", << <<"b">>, <<"a">> >>, <<>>),
         TypeObject(4, "enum", "f", ab, <<>>),
         TypeObject(5, "tuple", "(float,string)", <<>>, <<float, string>>),
         TypeObject(6, "tuple", "(float,string)", <<>>, <<float, string>>),
         TypeObject(7, "tuple", "(float)", <<>>, <<float>>),
         list,
         TypeObject(9, "list", "List<float>", <<>>, <<float>>),
         TypeObject(10, "list", "List<e>", <<>>, <<enum>>),
         TypeObject(11, "list", "List<e>", <<>>, <<same>>),
         TypeObject(12, "dictionary", "Dict<float>", <<>>, <<float>>),
         TypeObject(13, "dictionary", "Dict<float>", <<>>, <<float>>),
         TypeObject(14, "dictionary", "Dict<List<float>>", <<>>, <<list>>)}
\* Color.of( code).toString(), and the same of what it gives
ColorCall(code) ==
    /\ call' = [op |-> "Color.of.toString", args |-> <<code>>,
                result |-> [color |-> ColorOf(code),
                            string |-> ColorToString(ColorOf(code)),
                            again |-> ColorToString(ColorOf(ColorToString(ColorOf(code))))]]
    /\ UNCHANGED <<heap, apiSpace, lastGet, parseVars, parses, registry>>
\* type.equals( other), and other.equals( type)
EqualsCall(type, other) ==
    /\ call' = [op |-> "equals", args |-> <<type, other>>,
                result |-> [equals |-> Equals(type, other),
                            reverse |-> Equals(other, type)]]
    /\ UNCHANGED <<heap, apiSpace, lastGet, parseVars, parses, registry>>
\* the one call of a behaviour
NextPure ==
    \/ call = Idle /\ \E code \in ColorCodes : ColorCall(code)
    \/ call = Idle /\ \E type \in TypeObjects, other \in TypeObjects :
                         EqualsCall(type, other)
SpecPure == InitCalls /\ [][NextPure]_vars

\* the digit of a colour code in lower case
LowerDigit(c) ==
    CASE c = "A" -> "a" [] c = "B" -> "b" [] c = "C" -> "c" [] c = "D" -> "d"
      [] c = "E" -> "e" [] c = "F" -> "f" [] OTHER -> c

\* C26: the string of the Color of a valid colour code is # and six lower
\* case digits, those of a six digit code, each digit of a three digit code
\* twice; each channel is within 0..255, a digit c of a three digit code
\* giving c * 17; and the string of the Color of that string is the same.
C26_ColorPrintsItsCodeInLowerCase ==
    call.op = "Color.of.toString" =>
        LET code == call.args[1]
            color == call.result.color
            digits == IF Len(code) = 7 THEN SubSeq(code, 2, 7)
                      ELSE <<code[2], code[2], code[3], code[3], code[4], code[4]>>
        IN  /\ color.k = "Color"
            /\ \A i \in 1..3 : color.v[i] \in 0..255
            /\ Len(code) = 4 => \A i \in 1..3 : color.v[i] = HexValue(code[i + 1]) * 17
            /\ call.result.string = <<"#">> \o [i \in 1..6 |-> LowerDigit(digits[i])]
            /\ call.result.again = call.result.string
\* a three digit code in upper case with a channel below 16
C26_Witness ==
    /\ call.op = "Color.of.toString" /\ call.args = << <<"#", "0", "A", "f">> >>
    /\ call.result.string = <<"#", "0", "0", "a", "a", "f", "f">>

\* what the types are made of: kind, name, values and the same of their
\* elements, whichever call made them
RECURSIVE Structure(_)
Structure(type) ==
    [kind |-> type.kind, name |-> type.name, values |-> type.values,
     elements |-> [i \in 1..Len(type.elements) |-> Structure(type.elements[i])]]
\* C25: two types are equal when they are made of the same: enum types of
\* the same name and ordered values, tuple, list and dictionary types of
\* equal components; and equals answers the same in both directions.
C25_EqualityIsStructural ==
    call.op = "equals" =>
        /\ call.result.equals = (Structure(call.args[1]) = Structure(call.args[2]))
        /\ call.result.reverse = call.result.equals

(***************************************************************************)
(* A codec that parses one script after another.                           *)
(***************************************************************************)
MaxParses == 2
\* a parse that goes on with the root parser of the parse before
NewParseOnTheSameParser ==
    /\ outcome.state \in {"returned", "thrown"} /\ parses < MaxParses
    /\ parses' = parses + 1
    /\ call' = [op |-> "parse", args |-> <<>>, result |-> outcome.state]
    /\ lines' = <<>>
    /\ stack' = <<RootParserEntry>>
    /\ outcome' = Running
    /\ UNCHANGED <<heap, aliases, references, transitions, defaultPresetAllowed,
                   apiSpace, lastGet, registry>>
\* codec.parse( script) after a parse that has returned or thrown: stack is
\* [ new RootParser( this)]; call keeps how the parse before ended
NewParse ==
    /\ outcome.state \in {"returned", "thrown"} /\ parses < MaxParses
    /\ parses' = parses + 1
    /\ call' = [op |-> "parse", args |-> <<>>, result |-> outcome.state]
    /\ heap' = RootHeapOver(registry.spaces)
    /\ lines' = <<>>
    /\ stack' = <<RootParserEntry>>
    /\ aliases' = [n \in {} |-> <<>>]
    /\ references' = [n \in {} |-> 0]
    /\ transitions' = <<>>
    /\ defaultPresetAllowed' = [domain \in Domains |-> TRUE]
    /\ outcome' = Running
    /\ UNCHANGED <<apiSpace, lastGet, registry>>
SpecTwice == Init /\ [][NextOver(Pool.twice) \/ NewParse]_vars

\* the parse of a script by a codec that has parsed nothing: [R, stack,
\* outcome] after its lines
RECURSIVE FirstParse(_)
FirstParse(script) ==
    IF script = <<>>
    THEN [R |-> [heap |-> RootHeap, aliases |-> [n \in {} |-> <<>>],
                 references |-> [n \in {} |-> 0], transitions |-> <<>>,
                 defaultPresetAllowed |-> [domain \in Domains |-> TRUE]],
          stack |-> <<RootParserEntry>>, outcome |-> Running]
    ELSE LET before == FirstParse(SubSeq(script, 1, Len(script) - 1))
         IN  Route(before.stack, before.R, script[Len(script)], Len(script) - 1)

\* C23: a parse after another on the same codec, the one before having
\* returned or thrown, goes as the parse of the same script by a codec that
\* has parsed nothing: the same objects, ids, aliases and transitions after
\* every line, and the same error or the same transitions returned.
C23_ParsesShareNoDocumentState ==
    parses > 1 =>
        \A first \in {FirstParse(lines)} :
            /\ RootState = first.R
            /\ IF outcome.state = "returned"
               THEN first.outcome = Running /\ outcome = Returned(first.R.transitions)
               ELSE outcome = first.outcome /\ stack = first.stack
\* the script before was refused; this one defines box and a transition on
\* it and has returned
C23_Witness ==
    /\ parses = 2 /\ call.result = "thrown"
    /\ lines = <<Line.box, Line.trigger>>
    /\ outcome.state = "returned" /\ Len(outcome.result) = 1
====
